---- MODULE Spec2Model ----
(***************************************************************************)
(* The audio mixing and zone-triggering engine of "The Walk"               *)
(* (class AudioMixer) together with the parts of the application that      *)
(* drive it (class TheWalkApp: startWalk, pauseWalk, resumeWalk, resetWalk *)
(* and the resilience hooks) and the position source (class                *)
(* LocationService).                                                       *)
(*                                                                         *)
(* Units.  Distances are whole centimetres, volumes and gains are whole    *)
(* percents (1.0 = 100).  Positions lie on one meridian: for two points    *)
(* of equal longitude the haversine formula of calculateDistance reduces   *)
(* to R * |dLat|, so a position is the signed arc length (in cm) from the  *)
(* reference point and the distance is the absolute difference.            *)
(*                                                                         *)
(* Scheduling.  JavaScript runs one macrotask at a time and drains the     *)
(* microtask queue after it.  Every action below that stands for a         *)
(* macrotask (a position sample, a timer, a fetch completion, a button)    *)
(* is enabled only when the microtask queue microq is empty; RunMicrotask  *)
(* runs the job at the head of the queue.                                  *)
(***************************************************************************)
EXTENDS Integers, Sequences, FiniteSets, TLC

VARIABLES
    isInitialized,    \* AudioMixer.isInitialized (audioContext, buses exist)
    masterVolume,     \* AudioMixer.masterVolume, percent
    musicBus,         \* last gain target scheduled on the music bus, percent
    oneshotBus,       \* last gain value set on the oneshot bus, percent
    layerIds,         \* insertion order of the audioLayers Map
    audioLayers,      \* layer id -> layer record
    audioZones,       \* sequence of zone records
    layerToPart,      \* layer id -> part id (only layers that have a part)
    partToLayers,     \* part id -> sequence of member layer ids (Set order)
    startedParts,
    layerGains,       \* layer id -> gain handle (only layers started by startPart)
    playedOneshots,
    activeOneshots,
    loadingPromises,  \* layer ids with a load in flight
    loadWaiters,      \* layer id -> continuations awaiting the in-flight load
    nodes,            \* handle -> source/gain node pair of the audio graph
    calls,            \* call id -> suspended updateLocationAudio invocation
    settleQ,          \* call ids waiting in the 50 ms timer of step 3, in order
    microq,           \* microtask queue
    stopTimers,       \* layer id -> number of pending setTimeout(stopLayer)
    duckTimers,       \* layer id -> pending setTimeout(duckMusicBus(1.0, ..))
    isPaused,         \* TheWalkApp.isPaused
    prevPlayed,       \* playedOneshots as it was when reset() last cleared it
    fetches,          \* layer id -> calls of loadAudio that have not settled
    app,              \* TheWalkApp: isWalking, audioPreloaded, the start
                      \* button, and the calls of startWalk in flight
    locationService   \* LocationService: its fields, the one-shot position
                      \* requests in flight and the promises of waitForFix

vars == << isInitialized, masterVolume, musicBus, oneshotBus, layerIds,
           audioLayers, audioZones, layerToPart, partToLayers, startedParts,
           layerGains, playedOneshots, activeOneshots, loadingPromises,
           loadWaiters, nodes, calls, settleQ, microq, stopTimers, duckTimers,
           isPaused, prevPlayed, fetches, app, locationService >>

----------------------------------------------------------------------------
(* Bounds of the model *)

MaxCalls == 2      \* suspended updateLocationAudio invocations at a time
MaxNodes == 4      \* source/gain pairs alive or still referenced at a time
MaxTimers == 1     \* pending stop timers per layer
MaxWaiters == 2    \* continuations awaiting the load of one layer
MaxDistance == 32  \* distances up to MaxDistance * 5 m are examined
MaxZones == 1      \* zones registered by direct calls of addAudioZone
MaxStarts == 2     \* calls of startWalk in flight, or with a timer pending
MaxRequests == 1   \* one-shot position requests in flight that are told apart

NoHandle == 0      \* a null source / gainNode reference
NoPosition == -1     \* a null position (no fix yet, or no argument)

\* the distances at which the volume of a zone is examined, 5 m apart
Distances == { 500 * k : k \in 0..MaxDistance }

Max(a, b) == IF a >= b THEN a ELSE b
Min(a, b) == IF a <= b THEN a ELSE b
Abs(a) == IF a >= 0 THEN a ELSE 0 - a

Range(f) == { f[x] : x \in DOMAIN f }
SeqToSet(q) == { q[i] : i \in 1..Len(q) }

Put(f, k, v) == [x \in DOMAIN f \cup {k} |-> IF x = k THEN v ELSE f[x]]
Get(f, k, dflt) == IF k \in DOMAIN f THEN f[k] ELSE dflt
Drop(f, k) == [x \in DOMAIN f \ {k} |-> f[x]]

----------------------------------------------------------------------------
(* The state of the program as one record, so that the methods of          *)
(* AudioMixer can be written as functions from state to state and          *)
(* composed in the order the code calls them.                              *)

St == [ isInitialized |-> isInitialized, masterVolume |-> masterVolume,
        musicBus |-> musicBus, oneshotBus |-> oneshotBus,
        layerIds |-> layerIds, audioLayers |-> audioLayers,
        audioZones |-> audioZones, layerToPart |-> layerToPart,
        partToLayers |-> partToLayers, startedParts |-> startedParts,
        layerGains |-> layerGains, playedOneshots |-> playedOneshots,
        activeOneshots |-> activeOneshots,
        loadingPromises |-> loadingPromises, loadWaiters |-> loadWaiters,
        nodes |-> nodes, calls |-> calls, settleQ |-> settleQ,
        microq |-> microq, stopTimers |-> stopTimers,
        duckTimers |-> duckTimers, isPaused |-> isPaused,
        prevPlayed |-> prevPlayed, fetches |-> fetches ]

\* The state after `new AudioMixer()` and `new TheWalkApp()`.
Constructed ==
    [ isInitialized |-> FALSE, masterVolume |-> 70,
      musicBus |-> 100, oneshotBus |-> 100,
      layerIds |-> << >>, audioLayers |-> << >>,
      audioZones |-> << >>, layerToPart |-> << >>,
      partToLayers |-> << >>, startedParts |-> {},
      layerGains |-> << >>, playedOneshots |-> {},
      activeOneshots |-> {},
      loadingPromises |-> {}, loadWaiters |-> << >>,
      nodes |-> << >>, calls |-> << >>, settleQ |-> << >>,
      microq |-> << >>, stopTimers |-> << >>,
      duckTimers |-> << >>, isPaused |-> FALSE,
      prevPlayed |-> {}, fetches |-> << >> ]

\* A source or gain node that is neither running nor referenced from the
\* program can no longer be observed: it is garbage.
Referenced(s) ==
    { s.audioLayers[l].source : l \in DOMAIN s.audioLayers }
      \cup { s.audioLayers[l].gainNode : l \in DOMAIN s.audioLayers }
      \cup Range(s.layerGains)

Collect(s) ==
    [s EXCEPT !.nodes =
        [h \in { g \in DOMAIN s.nodes :
                    s.nodes[g].running \/ g \in Referenced(s) } |-> s.nodes[h]]]

\* Handles are names: only their equality can be observed.  The nodes are
\* renumbered 1..n, ordered by the layer they belong to and by how the
\* program still refers to them, so that two states that differ only in the
\* names of their handles are the same state.
RenameWith(s, name) ==
    [s EXCEPT
       !.nodes = [i \in 1..Cardinality(DOMAIN s.nodes) |->
                     s.nodes[CHOOSE h \in DOMAIN s.nodes : name[h] = i]],
       !.audioLayers = [l \in DOMAIN s.audioLayers |->
           [s.audioLayers[l] EXCEPT
              !.source = IF @ = NoHandle THEN NoHandle ELSE name[@],
              !.gainNode = IF @ = NoHandle THEN NoHandle ELSE name[@]]],
       !.layerGains = [l \in DOMAIN s.layerGains |-> name[s.layerGains[l]]]]

NodeKeys(s) ==
    [h \in DOMAIN s.nodes |->
        3 * (CHOOSE i \in 1..Len(s.layerIds) : s.layerIds[i] = s.nodes[h].layer)
          + (IF \E l \in DOMAIN s.audioLayers :
                   h \in {s.audioLayers[l].source, s.audioLayers[l].gainNode}
             THEN 1
             ELSE IF h \in Range(s.layerGains) THEN 2 ELSE 3)]

NodeNames(H, key) ==
    [h \in H |-> Cardinality({ g \in H :
                    key[g] < key[h] \/ (key[g] = key[h] /\ g <= h) })]

Renumber(s) == RenameWith(s, NodeNames(DOMAIN s.nodes, NodeKeys(s)))

WithinBounds(s) ==
    /\ Cardinality(DOMAIN s.calls) <= MaxCalls
    /\ Cardinality(DOMAIN s.nodes) <= MaxNodes
    /\ \A l \in DOMAIN s.stopTimers : s.stopTimers[l] <= MaxTimers
    /\ \A l \in DOMAIN s.loadWaiters : Len(s.loadWaiters[l]) <= MaxWaiters

\* the mixer is left in state t
Becomes(t) ==
    \E s \in {Renumber(Collect(t))} :
    /\ WithinBounds(s)
    /\ isInitialized' = s.isInitialized
    /\ masterVolume' = s.masterVolume
    /\ musicBus' = s.musicBus
    /\ oneshotBus' = s.oneshotBus
    /\ layerIds' = s.layerIds
    /\ audioLayers' = s.audioLayers
    /\ audioZones' = s.audioZones
    /\ layerToPart' = s.layerToPart
    /\ partToLayers' = s.partToLayers
    /\ startedParts' = s.startedParts
    /\ layerGains' = s.layerGains
    /\ playedOneshots' = s.playedOneshots
    /\ activeOneshots' = s.activeOneshots
    /\ loadingPromises' = s.loadingPromises
    /\ loadWaiters' = s.loadWaiters
    /\ nodes' = s.nodes
    /\ calls' = s.calls
    /\ settleQ' = s.settleQ
    /\ microq' = s.microq
    /\ stopTimers' = s.stopTimers
    /\ duckTimers' = s.duckTimers
    /\ isPaused' = s.isPaused
    /\ prevPlayed' = s.prevPlayed
    /\ fetches' = s.fetches

\* a handler of the mixer has run and left it in state t
Commit(t) == Becomes(t) /\ UNCHANGED << app, locationService >>

----------------------------------------------------------------------------
(* AudioMixer: registration                                                *)

\* registerLayerDefaults(layerId, {loop, volume, url}); hasUrl: url is not null
registerLayerDefaults(s, layerId, loop, volume, hasUrl) ==
    LET known == layerId \in DOMAIN s.audioLayers
        existing == IF known THEN s.audioLayers[layerId]
                    ELSE [buffer |-> FALSE, url |-> FALSE]
    IN [s EXCEPT
          !.audioLayers = Put(s.audioLayers, layerId,
              [ buffer |-> existing.buffer,
                source |-> NoHandle,
                gainNode |-> NoHandle,
                isPlaying |-> FALSE,
                loop |-> loop,
                volume |-> Max(0, Min(100, volume)),
                url |-> (hasUrl \/ existing.url) ]),
          !.layerIds = IF known THEN s.layerIds ELSE Append(s.layerIds, layerId)]

\* registerLayerPart(layerId, partId); "" stands for a missing id
registerLayerPart(s, layerId, partId) ==
    IF partId = "" \/ layerId = "" THEN s
    ELSE LET members == Get(s.partToLayers, partId, << >>)
         IN [s EXCEPT
               !.layerToPart = Put(s.layerToPart, layerId, partId),
               !.partToLayers = Put(s.partToLayers, partId,
                   IF layerId \in SeqToSet(members) THEN members
                   ELSE Append(members, layerId))]

\* addAudioZone(config); an absent optional field of config is 0 / FALSE,
\* which `||` treats like an explicit 0 / false
addAudioZone(s, config) ==
    [s EXCEPT !.audioZones = Append(s.audioZones,
        [ id |-> config.id,
          center |-> config.center,
          radius |-> config.radius,
          audioLayers |-> config.audioLayers,
          fadeDistance |-> IF config.fadeDistance # 0 THEN config.fadeDistance
                           ELSE 5000,
          maxVolume |-> IF config.maxVolume # 0 THEN config.maxVolume ELSE 100,
          isOneshot |-> config.isOneshot ])]

----------------------------------------------------------------------------
(* AudioMixer: audio graph                                                 *)

isReady(s) == s.isInitialized

\* the handle of the next source/gain pair the audio context creates
FreshHandle(s) ==
    CHOOSE h \in 1..(Cardinality(DOMAIN s.nodes) + 1) :
        /\ h \notin DOMAIN s.nodes
        /\ \A g \in 1..(h - 1) : g \in DOMAIN s.nodes

\* source.stop() on the source of handle h
StopSource(s, h) ==
    IF h \in DOMAIN s.nodes
    THEN [s EXCEPT !.nodes[h].running = FALSE]
    ELSE s

\* duckMusicBus(targetGain, duration)
duckMusicBus(s, targetGain) ==
    IF ~s.isInitialized THEN s
    ELSE [s EXCEPT !.musicBus = targetGain]

\* startPart, lines 377-396: every member gets a looping, muted source
StartMembers(s, partId) ==
    LET layerSet == s.partToLayers[partId]
        StartMember(u, layerId) ==
            IF layerId \notin DOMAIN u.audioLayers THEN u
            ELSE IF ~u.audioLayers[layerId].buffer THEN u
            ELSE IF u.audioLayers[layerId].isPlaying THEN u
            ELSE LET h == FreshHandle(u)
                 IN [u EXCEPT
                       !.nodes = Put(u.nodes, h,
                           [ layer |-> layerId, by |-> "startPart",
                             bus |-> "music", loop |-> TRUE,
                             running |-> TRUE, gain |-> 0 ]),
                       !.audioLayers[layerId].source = h,
                       !.audioLayers[layerId].gainNode = h,
                       !.audioLayers[layerId].isPlaying = TRUE,
                       !.layerGains = Put(u.layerGains, layerId, h)]
        StartFrom[i \in 1..(Len(layerSet) + 1)] ==
            IF i = 1 THEN s ELSE StartMember(StartFrom[i - 1], layerSet[i - 1])
        started == StartFrom[Len(layerSet) + 1]
    IN [started EXCEPT !.startedParts = started.startedParts \cup {partId}]

\* startPart without the startedParts test of lines 348-351
startPart_Restart(s, partId) ==
    IF partId = "" THEN s
    ELSE IF Len(Get(s.partToLayers, partId, << >>)) = 0 THEN s
    ELSE
      LET layerSet == s.partToLayers[partId]
          notLoaded == { i \in 1..Len(layerSet) :
                           \/ layerSet[i] \notin DOMAIN s.audioLayers
                           \/ ~s.audioLayers[layerSet[i]].buffer }
      IN IF notLoaded # {} THEN s
         ELSE StartMembers(s, partId)

\* startPart without the allLoaded test of lines 360-375
startPart_Partial(s, partId) ==
    IF partId = "" THEN s
    ELSE IF partId \in s.startedParts THEN s
    ELSE IF Len(Get(s.partToLayers, partId, << >>)) = 0 THEN s
    ELSE StartMembers(s, partId)

\* startPart with the allLoaded test of lines 360-375 passing as soon as one
\* member has its buffer
startPart_AnyLoaded(s, partId) ==
    IF partId = "" THEN s
    ELSE IF partId \in s.startedParts THEN s
    ELSE IF Len(Get(s.partToLayers, partId, << >>)) = 0 THEN s
    ELSE
      LET layerSet == s.partToLayers[partId]
          loaded == { i \in 1..Len(layerSet) :
                        /\ layerSet[i] \in DOMAIN s.audioLayers
                        /\ s.audioLayers[layerSet[i]].buffer }
      IN IF loaded = {} THEN s
         ELSE StartMembers(s, partId)

\* startPart(partId)
startPart(s, partId) ==
    IF partId = "" THEN s
    ELSE IF partId \in s.startedParts THEN s
    ELSE IF Len(Get(s.partToLayers, partId, << >>)) = 0 THEN s
    ELSE
      LET layerSet == s.partToLayers[partId]
          notLoaded == { i \in 1..Len(layerSet) :
                           \/ layerSet[i] \notin DOMAIN s.audioLayers
                           \/ ~s.audioLayers[layerSet[i]].buffer }
      IN IF notLoaded # {} THEN s
         ELSE StartMembers(s, partId)

\* playLayer(layerId, volume, loop)
playLayer(s, layerId, volume, loop) ==
    IF layerId \notin DOMAIN s.audioLayers THEN s
    ELSE IF ~s.audioLayers[layerId].buffer THEN s
    ELSE
      LET layer == s.audioLayers[layerId]
          u == IF layer.source # NoHandle THEN StopSource(s, layer.source) ELSE s
          h == FreshHandle(u)
      IN [u EXCEPT
            !.nodes = Put(u.nodes, h,
                [ layer |-> layerId, by |-> "playLayer",
                  bus |-> "music", loop |-> loop,
                  running |-> TRUE,
                  gain |-> (volume * s.masterVolume) \div 100 ]),
            !.audioLayers[layerId].source = h,
            !.audioLayers[layerId].gainNode = h,
            !.audioLayers[layerId].isPlaying = TRUE]

\* stopLayer(layerId)
stopLayer(s, layerId) ==
    IF layerId \notin DOMAIN s.audioLayers THEN s
    ELSE IF ~s.audioLayers[layerId].isPlaying THEN s
    ELSE
      LET layer == s.audioLayers[layerId]
          u == IF layer.source # NoHandle THEN StopSource(s, layer.source) ELSE s
      IN [u EXCEPT
            !.audioLayers[layerId].isPlaying = FALSE,
            !.audioLayers[layerId].source = NoHandle,
            !.audioLayers[layerId].gainNode = NoHandle]

\* fadeLayer(layerId, targetVolume, duration)
fadeLayer(s, layerId, targetVolume) ==
    IF layerId \notin DOMAIN s.audioLayers THEN s
    ELSE
      LET layer == s.audioLayers[layerId]
          gainNode == IF layer.gainNode # NoHandle THEN layer.gainNode
                      ELSE Get(s.layerGains, layerId, NoHandle)
      IN IF gainNode = NoHandle THEN s
         ELSE [s EXCEPT
                 !.nodes[gainNode].gain = (targetVolume * s.masterVolume) \div 100,
                 !.audioLayers[layerId].volume = targetVolume]

\* the two cues with their own ducking envelope
SpecialCues == {"oneshot5", "oneshot8"}

\* StartOneShot without the ducking of lines 793-811
StartOneShot_NoDuck(s, layerId) ==
    [s EXCEPT
       !.nodes = Put(s.nodes, FreshHandle(s),
           [ layer |-> layerId, by |-> "playOneShot",
             bus |-> "oneshot", loop |-> FALSE,
             running |-> TRUE, gain |-> 100 ]),
       !.activeOneshots = s.activeOneshots \cup {layerId},
       !.audioLayers[layerId].isPlaying = TRUE]

\* playOneShot, lines 777-811: the source on the oneshot bus and the ducking
StartOneShot(s, layerId) ==
    LET h == FreshHandle(s)
        u == [s EXCEPT
                !.nodes = Put(s.nodes, h,
                    [ layer |-> layerId, by |-> "playOneShot",
                      bus |-> "oneshot", loop |-> FALSE,
                      running |-> TRUE, gain |-> 100 ]),
                !.activeOneshots = s.activeOneshots \cup {layerId},
                !.audioLayers[layerId].isPlaying = TRUE]
    IN IF layerId \in SpecialCues
       THEN [duckMusicBus(u, 0) EXCEPT
               !.duckTimers = Put(u.duckTimers, layerId,
                                  Get(u.duckTimers, layerId, 0) + 1)]
       ELSE duckMusicBus(u, 60)

\* playOneShot(layerId)
playOneShot(s, layerId) ==
    IF layerId \notin DOMAIN s.audioLayers THEN s
    ELSE IF ~s.audioLayers[layerId].buffer THEN s
    ELSE IF layerId \in s.activeOneshots THEN s
    ELSE StartOneShot(s, layerId)

\* source.onended of the oneshot source with handle h
onended(s, h) ==
    LET layerId == s.nodes[h].layer
        u == [s EXCEPT
                !.nodes[h].running = FALSE,
                !.activeOneshots = s.activeOneshots \ {layerId},
                !.audioLayers[layerId].isPlaying = FALSE]
    IN IF layerId \notin SpecialCues /\ u.activeOneshots = {}
       THEN duckMusicBus(u, 100)
       ELSE u

\* stopAll()
stopAll(s) ==
    LET StopFrom[i \in 1..(Len(s.layerIds) + 1)] ==
            IF i = 1 THEN s ELSE stopLayer(StopFrom[i - 1], s.layerIds[i - 1])
    IN StopFrom[Len(s.layerIds) + 1]

\* reset without playedOneshots.clear() of line 878
reset_KeepPlayed(s) ==
    LET u == stopAll(s)
    IN [u EXCEPT
          !.startedParts = {},
          !.activeOneshots = {},
          !.layerGains = << >>,
          !.audioLayers = [l \in DOMAIN u.audioLayers |->
              [u.audioLayers[l] EXCEPT !.isPlaying = FALSE,
                                       !.source = NoHandle,
                                       !.gainNode = NoHandle]],
          !.prevPlayed = s.playedOneshots]

\* reset()
reset(s) ==
    LET u == stopAll(s)
    IN [u EXCEPT
          !.startedParts = {},
          !.playedOneshots = {},
          !.activeOneshots = {},
          !.layerGains = << >>,
          !.audioLayers = [l \in DOMAIN u.audioLayers |->
              [u.audioLayers[l] EXCEPT !.isPlaying = FALSE,
                                       !.source = NoHandle,
                                       !.gainNode = NoHandle]],
          !.prevPlayed = s.playedOneshots]

----------------------------------------------------------------------------
(* AudioMixer: on-demand loading                                           *)

NoWaiter == [kind |-> "none", layer |-> "", call |-> 0]
TaskWaiter(layerId) == [kind |-> "task", layer |-> layerId, call |-> 0]
CallWaiter(c) == [kind |-> "call", layer |-> "", call |-> c]

AddWaiter(s, layerId, waiter) ==
    IF waiter.kind = "none" THEN s
    ELSE [s EXCEPT !.loadWaiters =
            Put(s.loadWaiters, layerId,
                Append(Get(s.loadWaiters, layerId, << >>), waiter))]

\* the load promise of lines 279-295: loadAudio is called (line 283) and the
\* promise is stored in loadingPromises
StartLoad(s, layerId) ==
    [s EXCEPT !.loadingPromises = s.loadingPromises \cup {layerId},
              !.fetches = Put(s.fetches, layerId,
                              Get(s.fetches, layerId, 0) + 1)]

\* ensureLayerLoaded without the test of loadingPromises (lines 266-269)
ensureLayerLoaded_NoDedup(s, layerId, waiter) ==
    IF layerId \notin DOMAIN s.audioLayers THEN [s |-> s, pending |-> FALSE]
    ELSE IF s.audioLayers[layerId].buffer THEN [s |-> s, pending |-> FALSE]
    ELSE IF ~s.audioLayers[layerId].url THEN [s |-> s, pending |-> FALSE]
    ELSE [s |-> AddWaiter(StartLoad(s, layerId), layerId, waiter),
          pending |-> TRUE]

\* ensureLayerLoaded(layerId), called by `waiter`.  pending: the returned
\* promise is still pending (it settles with the load in flight)
ensureLayerLoaded(s, layerId, waiter) ==
    IF layerId \notin DOMAIN s.audioLayers THEN [s |-> s, pending |-> FALSE]
    ELSE IF s.audioLayers[layerId].buffer THEN [s |-> s, pending |-> FALSE]
    ELSE IF layerId \in s.loadingPromises
         THEN [s |-> AddWaiter(s, layerId, waiter), pending |-> TRUE]
    ELSE IF ~s.audioLayers[layerId].url THEN [s |-> s, pending |-> FALSE]
    ELSE [s |-> AddWaiter(StartLoad(s, layerId), layerId, waiter),
          pending |-> TRUE]

\* calculateDistance on one meridian
calculateDistance(position, center) == Abs(position - center)

\* progressivePreload(position)
progressivePreload(s, position) ==
    LET margin == 15000
        Layers(u, zone) ==
            LET From[i \in 1..(Len(zone.audioLayers) + 1)] ==
                    IF i = 1 THEN u
                    ELSE ensureLayerLoaded(From[i - 1], zone.audioLayers[i - 1],
                                           NoWaiter).s
            IN From[Len(zone.audioLayers) + 1]
        Zones[i \in 1..(Len(s.audioZones) + 1)] ==
            IF i = 1 THEN s
            ELSE LET zone == s.audioZones[i - 1]
                     u == Zones[i - 1]
                     d == calculateDistance(position, zone.center)
                 IN IF d <= zone.radius + zone.fadeDistance + margin
                    THEN Layers(u, zone)
                    ELSE u
    IN Zones[Len(s.audioZones) + 1]

----------------------------------------------------------------------------
(* AudioMixer.updateLocationAudio                                          *)

PlayJob(layerId) == [kind |-> "playOneShot", layer |-> layerId, call |-> 0]
ResumeJob(c) == [kind |-> "resume", layer |-> "", call |-> c]

\* lines 668-671: async (layerId) => { await ensureLayerLoaded; playOneShot }
SpawnOneshot(s, layerId) ==
    LET r == ensureLayerLoaded(s, layerId, TaskWaiter(layerId))
    IN IF r.pending THEN r.s
       ELSE [r.s EXCEPT !.microq = Append(r.s.microq, PlayJob(layerId))]

\* line 631: Math.max(1, zone.radius || 10), in centimetres
triggerRadius(zone) == Max(100, IF zone.radius # 0 THEN zone.radius ELSE 1000)

\* ZoneFires without the alreadyPlayed test of line 643
ZoneFires_Rearmed(s, zone, position) ==
    /\ calculateDistance(position, zone.center) <= triggerRadius(zone)
    /\ ~("oneshot_finale" \in s.playedOneshots /\ zone.id # "oneshot_finale")
    /\ ~(zone.id = "oneshot_finale" /\ "oneshot_9" \notin s.playedOneshots)

\* ZoneFires without the prerequisite test of lines 651-661
ZoneFires_Ungated(s, zone, position) ==
    /\ calculateDistance(position, zone.center) <= triggerRadius(zone)
    /\ zone.id \notin s.playedOneshots
    /\ ~("oneshot_finale" \in s.playedOneshots /\ zone.id # "oneshot_finale")

\* ZoneFires without the walk-completed test of lines 645-648
ZoneFires_AfterFinale(s, zone, position) ==
    /\ calculateDistance(position, zone.center) <= triggerRadius(zone)
    /\ zone.id \notin s.playedOneshots
    /\ ~(zone.id = "oneshot_finale" /\ "oneshot_9" \notin s.playedOneshots)

\* ZoneFires with the prerequisite test of lines 651-661 looking for
\* oneshot_1 instead of oneshot_9
ZoneFires_WrongPrerequisite(s, zone, position) ==
    /\ calculateDistance(position, zone.center) <= triggerRadius(zone)
    /\ zone.id \notin s.playedOneshots
    /\ ~("oneshot_finale" \in s.playedOneshots /\ zone.id # "oneshot_finale")
    /\ ~(zone.id = "oneshot_finale" /\ "oneshot_1" \notin s.playedOneshots)

\* lines 630-663: does `zone` fire for a sample at `position`
ZoneFires(s, zone, position) ==
    LET distance == calculateDistance(position, zone.center)
        alreadyPlayed == zone.id \in s.playedOneshots
    IN /\ distance <= triggerRadius(zone)
       /\ ~alreadyPlayed
       /\ ~("oneshot_finale" \in s.playedOneshots /\ zone.id # "oneshot_finale")
       /\ ~(zone.id = "oneshot_finale" /\ "oneshot_9" \notin s.playedOneshots)

\* step 1, lines 627-673
HandleOneshots(s, position) ==
    LET Fire(u, zone) ==
            LET marked == [u EXCEPT !.playedOneshots = u.playedOneshots \cup {zone.id}]
                From[i \in 1..(Len(zone.audioLayers) + 1)] ==
                    IF i = 1 THEN marked
                    ELSE SpawnOneshot(From[i - 1], zone.audioLayers[i - 1])
            IN From[Len(zone.audioLayers) + 1]
        Zones[i \in 1..(Len(s.audioZones) + 1)] ==
            IF i = 1 THEN s
            ELSE LET zone == s.audioZones[i - 1]
                     u == Zones[i - 1]
                 IN IF zone.isOneshot /\ ZoneFires(u, zone, position)
                    THEN Fire(u, zone)
                    ELSE u
    IN Zones[Len(s.audioZones) + 1]

\* the volume of a zone as a ramp from its centre to its edge, without the
\* fade ring of lines 696-699
ZoneVolume_FromCentre(zone, distance) ==
    IF distance <= zone.radius
    THEN (zone.maxVolume * (zone.radius - distance)) \div zone.radius
    ELSE 0

\* the volume of a zone without the core of lines 696-697: the ramp formula
\* at every distance within the radius
ZoneVolume_NoCore(zone, distance) ==
    IF distance <= zone.radius
    THEN (zone.maxVolume * (zone.radius - distance)) \div zone.fadeDistance
    ELSE 0

\* lines 693-701: the volume a non-oneshot zone gives at `distance`
ZoneVolume(zone, distance) ==
    IF distance <= zone.radius
    THEN LET fadeStart == Max(0, zone.radius - zone.fadeDistance)
         IN IF distance <= fadeStart THEN zone.maxVolume
            ELSE (zone.maxVolume * (zone.radius - distance)) \div zone.fadeDistance
    ELSE 0

\* step 2 adding the volumes of the zones of a layer instead of Math.max
layerTargetVolumes_Sum(s, position) ==
    LET Layers(m, zone, volume) ==
            LET From[i \in 1..(Len(zone.audioLayers) + 1)] ==
                    IF i = 1 THEN m
                    ELSE LET prev == From[i - 1]
                             layerId == zone.audioLayers[i - 1]
                             currentTargetVol == Get(prev.vol, layerId, 0)
                         IN [ keys |-> IF layerId \in DOMAIN prev.vol THEN prev.keys
                                       ELSE Append(prev.keys, layerId),
                              vol |-> Put(prev.vol, layerId,
                                          currentTargetVol + volume) ]
            IN From[Len(zone.audioLayers) + 1]
        Zones[i \in 1..(Len(s.audioZones) + 1)] ==
            IF i = 1 THEN [keys |-> << >>, vol |-> << >>]
            ELSE LET zone == s.audioZones[i - 1]
                     m == Zones[i - 1]
                 IN IF zone.isOneshot THEN m
                    ELSE Layers(m, zone,
                                ZoneVolume(zone, calculateDistance(position, zone.center)))
    IN Zones[Len(s.audioZones) + 1]

\* step 2, lines 689-707: the Map layerTargetVolumes, with its key order
layerTargetVolumes(s, position) ==
    LET Layers(m, zone, volume) ==
            LET From[i \in 1..(Len(zone.audioLayers) + 1)] ==
                    IF i = 1 THEN m
                    ELSE LET prev == From[i - 1]
                             layerId == zone.audioLayers[i - 1]
                             currentTargetVol == Get(prev.vol, layerId, 0)
                         IN [ keys |-> IF layerId \in DOMAIN prev.vol THEN prev.keys
                                       ELSE Append(prev.keys, layerId),
                              vol |-> Put(prev.vol, layerId,
                                          Max(currentTargetVol, volume)) ]
            IN From[Len(zone.audioLayers) + 1]
        Zones[i \in 1..(Len(s.audioZones) + 1)] ==
            IF i = 1 THEN [keys |-> << >>, vol |-> << >>]
            ELSE LET zone == s.audioZones[i - 1]
                     m == Zones[i - 1]
                 IN IF zone.isOneshot THEN m
                    ELSE Layers(m, zone,
                                ZoneVolume(zone, calculateDistance(position, zone.center)))
    IN Zones[Len(s.audioZones) + 1]

\* step 3, lines 710-718: the Set partsToStart, in insertion order
partsToStart(s, targets) ==
    LET From[i \in 1..(Len(targets.keys) + 1)] ==
            IF i = 1 THEN << >>
            ELSE LET layerId == targets.keys[i - 1]
                     partId == Get(s.layerToPart, layerId, "")
                     parts == From[i - 1]
                 IN IF /\ targets.vol[layerId] > 0
                       /\ partId # ""
                       /\ partId \notin s.startedParts
                       /\ partId \notin SeqToSet(parts)
                    THEN Append(parts, partId)
                    ELSE parts
    IN From[Len(targets.keys) + 1]

\* layerId.startsWith('oneshot'), over the layer ids of the configurations
startsWithOneshot(layerId) ==
    layerId \in {"oneshot1", "oneshot5", "oneshot8", "oneshot9", "oneshotFinale"}

ScheduleStop(s, layerId) ==
    [s EXCEPT !.stopTimers = Put(s.stopTimers, layerId,
                                 Get(s.stopTimers, layerId, 0) + 1)]

\* step 4 for one layer without the two skips of lines 735-736
ApplyFade_NoSkip(s, layerId, targets) ==
    LET layer == s.audioLayers[layerId]
        targetVolume == Get(targets.vol, layerId, 0)
    IN IF targetVolume > 0
       THEN IF ~layer.isPlaying THEN playLayer(s, layerId, targetVolume, TRUE)
            ELSE fadeLayer(s, layerId, targetVolume)
       ELSE IF layer.isPlaying
            THEN IF Get(s.layerToPart, layerId, "") # ""
                 THEN fadeLayer(s, layerId, 0)
                 ELSE ScheduleStop(fadeLayer(s, layerId, 0), layerId)
            ELSE s

\* step 4 for one layer with the branch of lines 751-753 (fade and delayed
\* stop) taken for the members of parts too
ApplyFade_StopParts(s, layerId, targets) ==
    IF layerId \in s.activeOneshots THEN s
    ELSE IF startsWithOneshot(layerId) THEN s
    ELSE
      LET layer == s.audioLayers[layerId]
          targetVolume == Get(targets.vol, layerId, 0)
      IN IF targetVolume > 0
         THEN IF ~layer.isPlaying THEN playLayer(s, layerId, targetVolume, TRUE)
              ELSE fadeLayer(s, layerId, targetVolume)
         ELSE IF layer.isPlaying
              THEN ScheduleStop(fadeLayer(s, layerId, 0), layerId)
              ELSE s

\* step 4, lines 733-755, for one layer
ApplyFade(s, layerId, targets) ==
    IF layerId \in s.activeOneshots THEN s
    ELSE IF startsWithOneshot(layerId) THEN s
    ELSE
      LET layer == s.audioLayers[layerId]
          targetVolume == Get(targets.vol, layerId, 0)
      IN IF targetVolume > 0
         THEN IF ~layer.isPlaying THEN playLayer(s, layerId, targetVolume, TRUE)
              ELSE fadeLayer(s, layerId, targetVolume)
         ELSE IF layer.isPlaying
              THEN IF Get(s.layerToPart, layerId, "") # ""
                   THEN fadeLayer(s, layerId, 0)
                   ELSE ScheduleStop(fadeLayer(s, layerId, 0), layerId)
              ELSE s

\* step 4, lines 733-755
ApplyFades(s, targets) ==
    LET From[i \in 1..(Len(s.layerIds) + 1)] ==
            IF i = 1 THEN s
            ELSE ApplyFade(From[i - 1], s.layerIds[i - 1], targets)
    IN From[Len(s.layerIds) + 1]

\* lines 722-725: the loads of the part at the head of the call's list are
\* requested and Promise.all of them is awaited
AwaitPart(s, c) ==
    LET layerSet == Get(s.partToLayers, Head(s.calls[c].parts), << >>)
        From[i \in 1..(Len(layerSet) + 1)] ==
            IF i = 1 THEN [s |-> s, waiting |-> {}]
            ELSE LET prev == From[i - 1]
                     r == ensureLayerLoaded(prev.s, layerSet[i - 1],
                                            CallWaiter(c))
                 IN [ s |-> r.s,
                      waiting |-> IF r.pending
                                  THEN prev.waiting \cup {layerSet[i - 1]}
                                  ELSE prev.waiting ]
        r == From[Len(layerSet) + 1]
    IN IF r.waiting = {}
       THEN [r.s EXCEPT !.microq = Append(r.s.microq, ResumeJob(c))]
       ELSE [r.s EXCEPT !.calls[c].waiting = r.waiting]

\* lines 727-729: Promise.all resolved; the part is started and the loop
\* goes on to the next part, or to the 50 ms timer after the last one
ResumeCall(s, c) ==
    LET u == startPart(s, Head(s.calls[c].parts))
        rest == Tail(s.calls[c].parts)
    IN IF rest # << >>
       THEN AwaitPart([u EXCEPT !.calls[c].parts = rest], c)
       ELSE [u EXCEPT !.calls[c].parts = rest,
                      !.settleQ = Append(u.settleQ, c)]

\* the invocations `ended` return or throw
EndCall(s, ended) ==
    [s EXCEPT !.calls = [d \in DOMAIN s.calls \ ended |->
        [s.calls[d] EXCEPT !.earlier = s.calls[d].earlier \ ended]]]

\* an id for a new suspended invocation
FreshCall(s) ==
    CHOOSE c \in 1..(Cardinality(DOMAIN s.calls) + 1) :
        /\ c \notin DOMAIN s.calls
        /\ \A d \in 1..(c - 1) : d \in DOMAIN s.calls

\* step 4 of an invocation has run: every invocation in `earlier` that is
\* still suspended has now been overtaken by the commands of a later sample
Overtake(s, earlier) ==
    [s EXCEPT !.calls = [d \in DOMAIN s.calls |->
        IF d \in earlier THEN [s.calls[d] EXCEPT !.overtaken = TRUE]
        ELSE s.calls[d]]]

\* updateLocationAudio without the guard of line 621
updateLocationAudio_NoGuard(s, position) ==
    LET targets == layerTargetVolumes(s, position)
        parts == partsToStart(s, targets)
        c == FreshCall(s)
        s1 == HandleOneshots(s, position)
    IN IF parts = << >>
       THEN Overtake(ApplyFades(s1, targets), DOMAIN s1.calls)
       ELSE AwaitPart([s1 EXCEPT !.calls = Put(s1.calls, c,
                          [ position |-> position, targets |-> targets,
                            parts |-> parts, waiting |-> {},
                            earlier |-> DOMAIN s1.calls,
                            overtaken |-> FALSE ])], c)

\* updateLocationAudio(position), up to its first await or its end
updateLocationAudio(s, position) ==
    IF position = NoPosition \/ ~isReady(s) THEN s
    ELSE
      LET targets == layerTargetVolumes(s, position)
          parts == partsToStart(s, targets)
          c == FreshCall(s)
          s1 == HandleOneshots(s, position)
      IN IF parts = << >>
         THEN Overtake(ApplyFades(s1, targets), DOMAIN s1.calls)
         ELSE AwaitPart([s1 EXCEPT !.calls = Put(s1.calls, c,
                            [ position |-> position, targets |-> targets,
                              parts |-> parts, waiting |-> {},
                              earlier |-> DOMAIN s1.calls,
                              overtaken |-> FALSE ])], c)

\* the 50 ms timer of line 729 fires for the invocation at the head of the
\* queue: step 4 runs and the invocation ends
SettleCall(s) ==
    LET c == Head(s.settleQ)
        u == Overtake(ApplyFades(s, s.calls[c].targets), s.calls[c].earlier)
    IN EndCall([u EXCEPT !.settleQ = Tail(u.settleQ)], {c})

\* the load of layerId in flight settles (loadAudio returns or throws, lines
\* 279-293); the continuations awaiting it are queued as microtasks: the
\* oneshot callbacks (one await deep) before the invocations of
\* updateLocationAudio (behind Promise.all), each kind in the order of their
\* calls of ensureLayerLoaded
LoadSettles(s, layerId, ok) ==
    LET ws == Get(s.loadWaiters, layerId, << >>)
        s0 == [s EXCEPT
                 !.loadingPromises = s.loadingPromises \ {layerId},
                 !.fetches = IF Get(s.fetches, layerId, 0) > 1
                             THEN Put(s.fetches, layerId, s.fetches[layerId] - 1)
                             ELSE Drop(s.fetches, layerId),
                 !.loadWaiters = Drop(s.loadWaiters, layerId),
                 !.audioLayers[layerId].buffer = ok]
        IsTask(w) == w.kind = "task"
        IsCall(w) == w.kind = "call"
        tasks == SelectSeq(ws, IsTask)
        callers == SelectSeq(ws, IsCall)
        playJobs == [i \in 1..Len(tasks) |-> PlayJob(tasks[i].layer)]
        Loaded[i \in 1..(Len(callers) + 1)] ==
            IF i = 1 THEN [s0 EXCEPT !.microq = s0.microq \o playJobs]
            ELSE LET u == Loaded[i - 1]
                     c == callers[i - 1].call
                     waiting == u.calls[c].waiting \ {layerId}
                 IN IF waiting = {}
                    THEN [u EXCEPT !.calls[c].waiting = waiting,
                                   !.microq = Append(u.microq, ResumeJob(c))]
                    ELSE [u EXCEPT !.calls[c].waiting = waiting]
        aborted == { callers[i].call : i \in 1..Len(callers) }
        NotAborted(w) == ~(w.kind = "call" /\ w.call \in aborted)
        remaining == [l \in DOMAIN s0.loadWaiters |->
                         SelectSeq(s0.loadWaiters[l], NotAborted)]
        Failed == [EndCall(s0, aborted) EXCEPT
                     !.loadWaiters = [l \in { k \in DOMAIN remaining :
                                                remaining[k] # << >> } |->
                                         remaining[l]]]
    IN IF ok THEN Loaded[Len(callers) + 1] ELSE Failed

\* the microtask at the head of the queue runs
runMicrotask(s) ==
    LET job == Head(s.microq)
        s0 == [s EXCEPT !.microq = Tail(s.microq)]
    IN IF job.kind = "playOneShot" THEN playOneShot(s0, job.layer)
       ELSE ResumeCall(s0, job.call)

\* initialize()
initialize(s) ==
    IF s.isInitialized THEN s
    ELSE [s EXCEPT !.isInitialized = TRUE, !.musicBus = 100, !.oneshotBus = 100]

----------------------------------------------------------------------------
(* TheWalkApp                                                              *)

\* loadConfiguration(), for the features of a GeoJSON FeatureCollection
loadConfiguration(s, features) ==
    LET Layers(u, feature) ==
            LET From[i \in 1..(Len(feature.audioLayers) + 1)] ==
                    IF i = 1 THEN u
                    ELSE LET layer == feature.audioLayers[i - 1]
                             v == From[i - 1]
                         IN IF layer.id = "" \/ ~layer.file THEN v
                            ELSE registerLayerPart(
                                   registerLayerDefaults(v, layer.id,
                                       layer.loop, layer.volume, layer.file),
                                   layer.id, feature.partId)
            IN From[Len(feature.audioLayers) + 1]
        Features[i \in 1..(Len(features) + 1)] ==
            IF i = 1 THEN s
            ELSE LET feature == features[i - 1]
                 IN addAudioZone(Layers(Features[i - 1], feature),
                      [ id |-> feature.id,
                        center |-> feature.center,
                        radius |-> feature.radius,
                        audioLayers |-> [k \in 1..Len(feature.audioLayers) |->
                                            feature.audioLayers[k].id],
                        fadeDistance |-> feature.fadeDistance,
                        maxVolume |-> feature.maxVolume,
                        isOneshot |-> feature.isOneshot ])
    IN Features[Len(features) + 1]

\* pauseWalk()
pauseWalk(s) ==
    IF s.isPaused THEN s
    ELSE
      LET muted == IF s.isInitialized
                   THEN [s EXCEPT !.musicBus = 0, !.oneshotBus = 0]
                   ELSE s
          From[i \in 1..(Len(s.layerIds) + 1)] ==
              IF i = 1 THEN muted
              ELSE LET layerId == s.layerIds[i - 1]
                       u == From[i - 1]
                   IN IF u.audioLayers[layerId].isPlaying
                         /\ ~startsWithOneshot(layerId)
                      THEN ScheduleStop(fadeLayer(u, layerId, 0), layerId)
                      ELSE u
      IN [From[Len(s.layerIds) + 1] EXCEPT !.isPaused = TRUE]

\* resumeWalk()
resumeWalk(s) ==
    IF ~s.isPaused THEN s
    ELSE LET unmuted == IF s.isInitialized
                        THEN [s EXCEPT !.musicBus = 100, !.oneshotBus = 100]
                        ELSE s
         IN [unmuted EXCEPT !.isPaused = FALSE]

\* resetWalk()
resetWalk(s) ==
    [reset(s) EXCEPT !.isPaused = FALSE]

----------------------------------------------------------------------------
(* The configuration and the inputs of the model                           *)

MusicLayer(id) == [id |-> id, file |-> TRUE, loop |-> TRUE, volume |-> 100]
VoiceLayer(id) == [id |-> id, file |-> TRUE, loop |-> FALSE, volume |-> 100]

\* the walk of the default specification: one music zone whose two stems
\* form the part "audio1", and one oneshot zone at its centre
WalkFeatures ==
    << [ id |-> "music_1", partId |-> "audio1", center |-> 0,
         radius |-> 10000, fadeDistance |-> 2000, maxVolume |-> 100,
         isOneshot |-> FALSE,
         audioLayers |-> << MusicLayer("audio1_a"), MusicLayer("audio1_b") >> ],
       [ id |-> "oneshot_1", partId |-> "", center |-> 0,
         radius |-> 1000, fadeDistance |-> 3000, maxVolume |-> 80,
         isOneshot |-> TRUE,
         audioLayers |-> << VoiceLayer("oneshot1") >> ] >>

\* the end of a walk: the prerequisite of the finale, the finale, and an
\* ordinary oneshot zone registered after the finale and overlapping it
FinaleFeatures ==
    << [ id |-> "oneshot_9", partId |-> "", center |-> 0,
         radius |-> 1000, fadeDistance |-> 3000, maxVolume |-> 80,
         isOneshot |-> TRUE,
         audioLayers |-> << VoiceLayer("oneshot9") >> ],
       [ id |-> "oneshot_finale", partId |-> "", center |-> 9000,
         radius |-> 1000, fadeDistance |-> 3000, maxVolume |-> 80,
         isOneshot |-> TRUE,
         audioLayers |-> << VoiceLayer("oneshotFinale") >> ],
       [ id |-> "oneshot_1", partId |-> "", center |-> 9500,
         radius |-> 1000, fadeDistance |-> 3000, maxVolume |-> 80,
         isOneshot |-> TRUE,
         audioLayers |-> << VoiceLayer("oneshot1") >> ] >>

\* a special cue and an ordinary oneshot zone further along the walk
CueFeatures ==
    << [ id |-> "oneshot_5", partId |-> "", center |-> 0,
         radius |-> 1000, fadeDistance |-> 3000, maxVolume |-> 80,
         isOneshot |-> TRUE,
         audioLayers |-> << VoiceLayer("oneshot5") >> ],
       [ id |-> "oneshot_1", partId |-> "", center |-> 9000,
         radius |-> 1000, fadeDistance |-> 3000, maxVolume |-> 80,
         isOneshot |-> TRUE,
         audioLayers |-> << VoiceLayer("oneshot1") >> ] >>

\* two music zones without a part that share the layer "shared": zone_a,
\* with the layer "solo" of its own, and zone_b
VolumeFeatures(radius, fadeDistance, maxVolume, center) ==
    << [ id |-> "zone_a", partId |-> "", center |-> 0,
         radius |-> radius, fadeDistance |-> fadeDistance,
         maxVolume |-> maxVolume, isOneshot |-> FALSE,
         audioLayers |-> << MusicLayer("shared"), MusicLayer("solo") >> ],
       [ id |-> "zone_b", partId |-> "", center |-> center,
         radius |-> 10000, fadeDistance |-> 2000,
         maxVolume |-> 80, isOneshot |-> FALSE,
         audioLayers |-> << MusicLayer("shared") >> ] >>

\* the values the properties of zone_a are drawn from: radius in cm,
\* fadeDistance in cm (0, a ring, and a ring wider than the zone), maxVolume
\* in percent
Radii == {5000, 10000}
FadeDistances == {0, 2000, 15000}
MaxVolumes == {0, 50, 100}
Centers == {0, 9000}

\* one oneshot zone 5 m and 10 m from two of the sample positions
TriggerFeatures(radius, fadeDistance, maxVolume) ==
    << [ id |-> "oneshot_1", partId |-> "", center |-> 9500,
         radius |-> radius, fadeDistance |-> fadeDistance,
         maxVolume |-> maxVolume, isOneshot |-> TRUE,
         audioLayers |-> << VoiceLayer("oneshot1") >> ] >>

\* the values the properties of the oneshot zone are drawn from: radius in
\* cm (0, half a metre, 10 m, 95 m), fadeDistance in cm, maxVolume in percent
TriggerRadii == {0, 50, 1000, 9500}
TriggerFades == {0, 3000}
TriggerVolumes == {0, 80}

\* a walk through music only: the part "audio1"
PartFeatures ==
    << [ id |-> "music_1", partId |-> "audio1", center |-> 0,
         radius |-> 10000, fadeDistance |-> 2000, maxVolume |-> 100,
         isOneshot |-> FALSE,
         audioLayers |-> << MusicLayer("audio1_a"), MusicLayer("audio1_b") >> ] >>

\* a part next to a music layer of no part: the zone "music_1" with the one
\* stem of part "audio1", and the zone "ambient", whose name gives no part
MixFeatures ==
    << [ id |-> "music_1", partId |-> "audio1", center |-> 0,
         radius |-> 10000, fadeDistance |-> 2000, maxVolume |-> 100,
         isOneshot |-> FALSE,
         audioLayers |-> << MusicLayer("audio1_a") >> ],
       [ id |-> "ambient", partId |-> "", center |-> 10500,
         radius |-> 2000, fadeDistance |-> 1000, maxVolume |-> 80,
         isOneshot |-> FALSE,
         audioLayers |-> << MusicLayer("ambient") >> ] >>

\* the positions sampled.  In WalkFeatures and PartFeatures: the core of
\* music_1 (and the range of oneshot_1), its fade ring, outside it.  In
\* FinaleFeatures: in range of oneshot_9; of oneshot_finale and oneshot_1;
\* of oneshot_1 alone
Positions == {0, 9000, 10500}

\* the arguments of updateLocationAudio: a position, or none
Samples == Positions \cup {NoPosition}

Parts == {"audio1"}

----------------------------------------------------------------------------
(* The state machine                                                       *)

StartsAs(s) ==
    /\ isInitialized = s.isInitialized
    /\ masterVolume = s.masterVolume
    /\ musicBus = s.musicBus
    /\ oneshotBus = s.oneshotBus
    /\ layerIds = s.layerIds
    /\ audioLayers = s.audioLayers
    /\ audioZones = s.audioZones
    /\ layerToPart = s.layerToPart
    /\ partToLayers = s.partToLayers
    /\ startedParts = s.startedParts
    /\ layerGains = s.layerGains
    /\ playedOneshots = s.playedOneshots
    /\ activeOneshots = s.activeOneshots
    /\ loadingPromises = s.loadingPromises
    /\ loadWaiters = s.loadWaiters
    /\ nodes = s.nodes
    /\ calls = s.calls
    /\ settleQ = s.settleQ
    /\ microq = s.microq
    /\ stopTimers = s.stopTimers
    /\ duckTimers = s.duckTimers
    /\ isPaused = s.isPaused
    /\ prevPlayed = s.prevPlayed
    /\ fetches = s.fetches
    /\ app = [ isWalking |-> FALSE, audioPreloaded |-> FALSE,
               startDisabled |-> FALSE, starts |-> << >> ]
    /\ locationService =
          [ watchId |-> FALSE, currentPosition |-> NoPosition,
            isTracking |-> FALSE, callbacks |-> << 0 >>,
            restartTimer |-> FALSE, pollTimer |-> FALSE,
            requests |-> 0, fixes |-> << >> ]

Init == StartsAs(loadConfiguration(Constructed, WalkFeatures))

Idle == microq = << >>

Initialize == Idle /\ ~isInitialized /\ Commit(initialize(St))

ProgressivePreload ==
    Idle /\ \E position \in Positions : Commit(progressivePreload(St, position))

UpdateLocationAudio ==
    Idle /\ \E position \in Samples : Commit(updateLocationAudio(St, position))

StartPart ==
    Idle /\ isInitialized /\ \E partId \in Parts : Commit(startPart(St, partId))

RunMicrotask == microq # << >> /\ Commit(runMicrotask(St))

LoadSucceeds ==
    Idle /\ isInitialized
         /\ \E layerId \in loadingPromises : Commit(LoadSettles(St, layerId, TRUE))

LoadFails ==
    Idle /\ \E layerId \in loadingPromises : Commit(LoadSettles(St, layerId, FALSE))

SettleTimer == Idle /\ settleQ # << >> /\ Commit(SettleCall(St))

StopTimer ==
    Idle /\ \E layerId \in DOMAIN stopTimers :
        Commit(stopLayer([St EXCEPT !.stopTimers =
            IF stopTimers[layerId] = 1 THEN Drop(stopTimers, layerId)
            ELSE Put(stopTimers, layerId, stopTimers[layerId] - 1)], layerId))

\* the timer a special cue set at lines 797-799 / 804-806 fires
DuckTimer ==
    Idle /\ \E layerId \in DOMAIN duckTimers :
        Commit(duckMusicBus([St EXCEPT !.duckTimers =
            IF duckTimers[layerId] = 1 THEN Drop(duckTimers, layerId)
            ELSE Put(duckTimers, layerId, duckTimers[layerId] - 1)], 100))

OneshotEnded ==
    Idle /\ \E h \in DOMAIN nodes :
        /\ nodes[h].by = "playOneShot"
        /\ nodes[h].running
        /\ Commit(onended(St, h))

PauseWalk == Idle /\ ~isPaused /\ Commit(pauseWalk(St))

ResumeWalk == Idle /\ isPaused /\ Commit(resumeWalk(St))

ResetWalk == Idle /\ Commit(resetWalk(St))

\* the mixer under position samples, loads, timers and reset
Next ==
    \/ Initialize
    \/ ProgressivePreload
    \/ UpdateLocationAudio
    \/ StartPart
    \/ RunMicrotask
    \/ LoadSucceeds
    \/ LoadFails
    \/ SettleTimer
    \/ OneshotEnded
    \/ ResetWalk

Spec == Init /\ [][Next]_vars

\* the end of the walk: oneshot zones only, so no part is started and no
\* music layer is stopped
InitFinale == StartsAs(loadConfiguration(Constructed, FinaleFeatures))

NextFinale ==
    \/ Initialize
    \/ ProgressivePreload
    \/ UpdateLocationAudio
    \/ RunMicrotask
    \/ LoadSucceeds
    \/ LoadFails
    \/ OneshotEnded
    \/ ResetWalk

SpecFinale == InitFinale /\ [][NextFinale]_vars

\* one session of a walk past a special cue and an ordinary oneshot: no
\* reset, so every zone fires at most once
InitCues == StartsAs(loadConfiguration(Constructed, CueFeatures))

NextCues ==
    \/ Initialize
    \/ ProgressivePreload
    \/ UpdateLocationAudio
    \/ RunMicrotask
    \/ LoadSucceeds
    \/ LoadFails
    \/ OneshotEnded
    \/ DuckTimer

SpecCues == InitCues /\ [][NextCues]_vars

\* the mix of music layers that belong to no part, for every choice of the
\* properties of zone_a and of the place of zone_b
InitVolume ==
    \E radius \in Radii, fadeDistance \in FadeDistances,
       maxVolume \in MaxVolumes, center \in Centers :
        StartsAs(loadConfiguration(Constructed,
            VolumeFeatures(radius, fadeDistance, maxVolume, center)))

NextVolume ==
    \/ Initialize
    \/ ProgressivePreload
    \/ UpdateLocationAudio
    \/ LoadSucceeds
    \/ LoadFails
    \/ StopTimer

SpecVolume == InitVolume /\ [][NextVolume]_vars

\* one session of a walk past one oneshot zone, for every choice of its
\* properties
InitTrigger ==
    \E radius \in TriggerRadii, fadeDistance \in TriggerFades,
       maxVolume \in TriggerVolumes :
        StartsAs(loadConfiguration(Constructed,
            TriggerFeatures(radius, fadeDistance, maxVolume)))

NextTrigger ==
    \/ Initialize
    \/ ProgressivePreload
    \/ UpdateLocationAudio
    \/ RunMicrotask
    \/ LoadSucceeds
    \/ LoadFails
    \/ OneshotEnded

SpecTrigger == InitTrigger /\ [][NextTrigger]_vars

\* the registration interface of the mixer, called in any order on a
\* constructed mixer: the layers, parts and zone properties it is called with
RegLayers == {"audio1_a", "audio1_b"}
RegParts == {"audio1", "audio2"}
RegRadii == {0 - 100, 0, 10000}
RegFades == {0, 2000}
RegVolumes == {0, 50}

\* the config of a music zone with every field supplied
ZoneConfig(radius, fadeDistance, maxVolume) ==
    [ id |-> "music_1", center |-> 0, radius |-> radius,
      audioLayers |-> << "audio1_a" >>, fadeDistance |-> fadeDistance,
      maxVolume |-> maxVolume, isOneshot |-> FALSE ]

RegisterLayerDefaults ==
    Idle /\ \E layerId \in RegLayers :
        Commit(registerLayerDefaults(St, layerId, TRUE, 100, TRUE))

RegisterLayerPart ==
    Idle /\ \E layerId \in RegLayers \cup {""}, partId \in RegParts \cup {""} :
        Commit(registerLayerPart(St, layerId, partId))

AddAudioZone ==
    /\ Idle
    /\ Len(audioZones) < MaxZones
    /\ \E radius \in RegRadii, fadeDistance \in RegFades,
          maxVolume \in RegVolumes :
           Commit(addAudioZone(St, ZoneConfig(radius, fadeDistance, maxVolume)))

InitRegister == StartsAs(Constructed)

NextRegister ==
    \/ RegisterLayerDefaults
    \/ RegisterLayerPart
    \/ AddAudioZone

SpecRegister == InitRegister /\ [][NextRegister]_vars

\* one session of a walk through music, with pause and resume and without
\* reset
InitPause == StartsAs(loadConfiguration(Constructed, PartFeatures))

NextPause ==
    \/ Initialize
    \/ ProgressivePreload
    \/ UpdateLocationAudio
    \/ StartPart
    \/ RunMicrotask
    \/ LoadSucceeds
    \/ LoadFails
    \/ SettleTimer
    \/ StopTimer
    \/ PauseWalk
    \/ ResumeWalk

SpecPause == InitPause /\ [][NextPause]_vars

\* one session of a walk past a part and a music layer of no part
InitMix == StartsAs(loadConfiguration(Constructed, MixFeatures))

NextMix ==
    \/ Initialize
    \/ ProgressivePreload
    \/ UpdateLocationAudio
    \/ StartPart
    \/ RunMicrotask
    \/ LoadSucceeds
    \/ LoadFails
    \/ SettleTimer
    \/ StopTimer

SpecMix == InitMix /\ [][NextMix]_vars

----------------------------------------------------------------------------
(* LocationService and the walk controls of TheWalkApp                     *)
(*                                                                         *)
(* locationService.watchId, pollTimer and restartTimer tell whether the    *)
(* watch, the poll interval and the restart timer are active;              *)
(* locationService.requests counts the calls of getCurrentPosition that    *)
(* have not called back (they cannot be cancelled), told apart up to       *)
(* MaxRequests; callbacks lists the listeners, 0 for the one the           *)
(* application registers at line 994 and the id of a call of startWalk     *)
(* for the temporary listener of its waitForFix; fixes holds the promise   *)
(* of each waitForFix: its flag done, its timer, and how often resolve or  *)
(* reject was called.  app.starts maps a call of startWalk in flight to    *)
(* the await it is suspended at.                                           *)

\* the mixer, the application and the location service as one record
World == [mixer |-> St, app |-> app, locationService |-> locationService]

\* a handler has run and left the three objects as in w
Apply(w) ==
    /\ Becomes(w.mixer)
    /\ app' = w.app
    /\ locationService' = w.locationService

\* startWatch(): the old watch is cleared, a first fix is requested and a
\* new watch is created
startWatch(l) ==
    [l EXCEPT !.watchId = TRUE, !.requests = Min(@ + 1, MaxRequests)]

\* startTracking()
startTracking(l) ==
    IF l.isTracking THEN l
    ELSE [startWatch([l EXCEPT !.isTracking = TRUE]) EXCEPT !.pollTimer = TRUE]

\* stopTracking()
stopTracking(l) ==
    [l EXCEPT !.watchId = FALSE, !.isTracking = FALSE,
              !.restartTimer = FALSE, !.pollTimer = FALSE]

\* handleLocationError(error): the listeners are told (none of them acts on
\* an error beyond the display), and a restart of the watch is scheduled
handleLocationError(l) ==
    IF l.isTracking THEN [l EXCEPT !.restartTimer = TRUE] ELSE l

\* the promise of the waitForFix of call id is resolved or rejected: the
\* temporary listener is removed and startWalk goes on to its wake lock
SettleFix(w, id) ==
    LET NotId(cb) == cb # id
    IN [w EXCEPT
          !.locationService.fixes[id].done = TRUE,
          !.locationService.fixes[id].settled = @ + 1,
          !.locationService.callbacks = SelectSeq(@, NotId),
          !.app.starts = IF id \in DOMAIN @ THEN Put(@, id, "wakeLock") ELSE @]

\* waitForFix(timeoutMs), called by the call id of startWalk
waitForFix(w, id) ==
    IF w.locationService.currentPosition # NoPosition
    THEN [w EXCEPT
            !.locationService.fixes = Put(@, id,
                [done |-> FALSE, timer |-> FALSE, settled |-> 1]),
            !.app.starts = Put(@, id, "wakeLock")]
    ELSE [w EXCEPT
            !.locationService.fixes = Put(@, id,
                [done |-> FALSE, timer |-> TRUE, settled |-> 0]),
            !.locationService.callbacks = Append(@, id),
            !.app.starts = Put(@, id, "fix")]

\* the timer of waitForFix fires without its test of done
fixTimeout_NoDone(w, id) ==
    SettleFix([w EXCEPT !.locationService.fixes[id].timer = FALSE], id)

\* the timer of waitForFix fires (lines 32-38)
fixTimeout(w, id) ==
    IF w.locationService.fixes[id].done
    THEN [w EXCEPT !.locationService.fixes[id].timer = FALSE]
    ELSE SettleFix([w EXCEPT !.locationService.fixes[id].timer = FALSE], id)

\* handleLocationUpdate(position): the position is stored and the listeners
\* are called in order: the application's (lines 994-1028), which drives the
\* mixer while isWalking, and the temporary ones of waitForFix
handleLocationUpdate(w, position) ==
    LET w0 == [w EXCEPT !.locationService.currentPosition = position]
        cbs == w0.locationService.callbacks
        Call(u, cb) ==
            IF cb = 0
            THEN IF u.app.isWalking
                 THEN [u EXCEPT !.mixer = updateLocationAudio(
                                     progressivePreload(@, position), position)]
                 ELSE u
            ELSE IF u.locationService.fixes[cb].done THEN u
                 ELSE SettleFix(u, cb)
        From[i \in 1..(Len(cbs) + 1)] ==
            IF i = 1 THEN w0 ELSE Call(From[i - 1], cbs[i - 1])
    IN From[Len(cbs) + 1]

\* the promises of waitForFix that nothing refers to any more are forgotten
Forget(w) ==
    [w EXCEPT !.locationService.fixes =
        [id \in { k \in DOMAIN @ : k \in DOMAIN w.app.starts \/ @[k].timer } |->
            @[id]]]

\* startWalk from line 1408 on: tracking is started and the first fix awaited
BeginTracking(w, id) ==
    waitForFix([w EXCEPT !.locationService = startTracking(@)], id)

\* the start button is pressed: startWalk() up to its first await
StartWalk ==
    /\ Idle
    /\ ~app.startDisabled
    /\ \E id \in 1..MaxStarts :
         /\ id \notin DOMAIN app.starts \cup DOMAIN locationService.fixes
         /\ \A k \in 1..(id - 1) :
               k \in DOMAIN app.starts \cup DOMAIN locationService.fixes
         /\ IF app.isWalking THEN Apply(World)
            ELSE IF ~app.audioPreloaded
            THEN Apply([World EXCEPT !.app.starts = Put(@, id, "preload"),
                                     !.app.startDisabled = TRUE])
            ELSE Apply(BeginTracking(World, id))

\* preloadEssentialAudio() returns to startWalk: the mixer is initialized,
\* the essential layer 'oneshot1' is loaded (or its load has failed), the
\* start button is enabled again by updateLoadingStatus(), and startWalk
\* goes on
PreloadDone ==
    /\ Idle
    /\ \E id \in DOMAIN app.starts, ok \in BOOLEAN :
         /\ app.starts[id] = "preload"
         /\ Apply(BeginTracking(
               [World EXCEPT
                  !.mixer = [initialize(@) EXCEPT !.audioLayers =
                      [layerId \in DOMAIN @ |->
                          IF layerId = "oneshot1"
                          THEN [@[layerId] EXCEPT !.buffer = ok]
                          ELSE @[layerId]]],
                  !.app.audioPreloaded = TRUE,
                  !.app.startDisabled = FALSE], id))

\* the timer of a waitForFix fires
FixTimeout ==
    /\ Idle
    /\ \E id \in DOMAIN locationService.fixes :
         /\ locationService.fixes[id].timer
         /\ Apply(Forget(fixTimeout(World, id)))

\* requestWakeLock() returns to startWalk, which sets isWalking (lines
\* 1424-1429) and ends
WakeLockDone ==
    /\ Idle
    /\ \E id \in DOMAIN app.starts :
         /\ app.starts[id] = "wakeLock"
         /\ Apply(Forget([World EXCEPT
               !.app.isWalking = TRUE,
               !.app.startDisabled = TRUE,
               !.app.starts = Drop(@, id),
               !.mixer.isPaused = FALSE]))

\* the watch reports a position
WatchPosition ==
    /\ Idle
    /\ locationService.watchId
    /\ \E position \in Positions : Apply(handleLocationUpdate(World, position))

\* the watch reports an error
WatchError ==
    /\ Idle
    /\ locationService.watchId
    /\ Apply([World EXCEPT !.locationService = handleLocationError(@)])

\* a call of getCurrentPosition calls back, with a position or an error
RequestSettles ==
    /\ Idle
    /\ locationService.requests > 0
    /\ \E position \in Samples :
         \E w \in {[World EXCEPT !.locationService.requests = @ - 1]} :
           IF position # NoPosition
           THEN Apply(handleLocationUpdate(w, position))
           ELSE Apply([w EXCEPT !.locationService = handleLocationError(@)])

\* the poll interval of startPolling fires (lines 118-132)
PollTimer ==
    /\ Idle
    /\ locationService.pollTimer
    /\ Apply([World EXCEPT !.locationService.requests =
                 IF locationService.isTracking
                 THEN Min(@ + 1, MaxRequests) ELSE @])

\* the restart timer of handleLocationError fires
RestartTimer ==
    /\ Idle
    /\ locationService.restartTimer
    /\ Apply([World EXCEPT !.locationService =
                 startWatch([@ EXCEPT !.restartTimer = FALSE])])

\* the pause button: pauseWalk()
PausePressed ==
    /\ Idle
    /\ app.isWalking /\ ~isPaused
    /\ Apply([World EXCEPT !.locationService = stopTracking(@),
                           !.mixer = pauseWalk(@)])

\* the pause button while paused: resumeWalk()
ResumePressed ==
    /\ Idle
    /\ app.isWalking /\ isPaused
    /\ Apply([World EXCEPT !.locationService = startTracking(@),
                           !.mixer = resumeWalk(@)])

\* the reset button: resetWalk()
ResetPressed ==
    /\ Idle
    /\ app.isWalking
    /\ Apply([World EXCEPT !.locationService = stopTracking(@),
                           !.mixer = resetWalk(@),
                           !.app.isWalking = FALSE,
                           !.app.startDisabled = FALSE])

\* the page becomes visible again (lines 1034-1057)
VisibilityChange ==
    /\ Idle
    /\ app.isWalking
    /\ Apply([World EXCEPT
          !.locationService = startWatch(@),
          !.mixer = updateLocationAudio(@, locationService.currentPosition)])

\* the watchdog of lines 1081-1100 finds the last position older than 15 s
Watchdog ==
    /\ Idle
    /\ app.isWalking
    /\ Apply([World EXCEPT !.locationService = startWatch(@)])

\* the application with its position source: one oneshot zone, 5 m and 10 m
\* from two of the positions
InitApp == StartsAs(loadConfiguration(Constructed, TriggerFeatures(1000, 3000, 80)))

NextApp ==
    \/ StartWalk
    \/ PreloadDone
    \/ FixTimeout
    \/ WakeLockDone
    \/ WatchPosition
    \/ WatchError
    \/ RequestSettles
    \/ PollTimer
    \/ RestartTimer
    \/ PausePressed
    \/ ResumePressed
    \/ ResetPressed
    \/ VisibilityChange
    \/ Watchdog
    \/ RunMicrotask
    \/ LoadSucceeds
    \/ OneshotEnded

SpecApp == InitApp /\ [][NextApp]_vars

----------------------------------------------------------------------------
(* Oneshot zones                                                           *)

\* the oneshot zones registered
OneshotZones == { zone \in Range(audioZones) : zone.isOneshot }

\* the callbacks of lines 668-671 spawned for layerId that have not yet
\* called playOneShot: awaiting the load, or queued as a microtask
Triggers(layerId) ==
    Cardinality({ i \in 1..Len(microq) : microq[i] = PlayJob(layerId) })
      + Cardinality({ i \in 1..Len(Get(loadWaiters, layerId, << >>)) :
                        loadWaiters[layerId][i].kind = "task" })

\* zone a is registered before zone b
RegisteredBefore(a, b) ==
    \E i, j \in 1..Len(audioZones) :
        i < j /\ audioZones[i].id = a /\ audioZones[j].id = b

\* the positions within the trigger radius of `zone`
InRange(zone) ==
    { position \in Positions :
        calculateDistance(position, zone.center) <= triggerRadius(zone) }

\* C1: between two resets a oneshot zone fires at most once.  In every step,
\* a zone id leaves playedOneshots only when reset() empties the set, and
\* while a zone stays in playedOneshots no further playOneShot callback is
\* spawned for its layers, whatever samples arrive and however many
\* invocations of updateLocationAudio overlap.
C1_FiresOnce ==
    [][ /\ playedOneshots \subseteq playedOneshots'
           \/ (playedOneshots' = {} /\ prevPlayed' = playedOneshots)
        /\ \A zone \in OneshotZones :
             (zone.id \in playedOneshots /\ zone.id \in playedOneshots')
               => \A layerId \in SeqToSet(zone.audioLayers) :
                     Triggers(layerId)' <= Triggers(layerId) ]_vars

\* oneshot_1 has fired once, and two invocations for samples in its range
\* overlap
C1_Witness ==
    /\ "oneshot_1" \in playedOneshots
    /\ Cardinality({ c \in DOMAIN calls : calls[c].position = 0 }) = 2
    /\ Triggers("oneshot1") = 1

\* C2: finale gating.  In every reachable state the finale is in
\* playedOneshots only if its prerequisite oneshot_9 is, and no sample
\* fires the finale while the prerequisite has not fired.
C2_FinaleGated ==
    /\ "oneshot_finale" \in playedOneshots => "oneshot_9" \in playedOneshots
    /\ \A position \in Positions :
          "oneshot_finale" \in updateLocationAudio(St, position).playedOneshots
            => "oneshot_9" \in updateLocationAudio(St, position).playedOneshots

\* the finale has fired, after its prerequisite
C2_Witness ==
    /\ "oneshot_finale" \in playedOneshots
    /\ "oneshot_9" \in playedOneshots

\* C3: once the finale has fired no other oneshot zone fires until reset.
\* In every step that ends with the finale fired, a zone that fires in the
\* step is the finale itself or was evaluated before the finale fired:
\* the finale had not fired when the step began and the zone is registered
\* before it.
C3_NothingAfterFinale ==
    [][ "oneshot_finale" \in playedOneshots'
          => \A id \in playedOneshots' \ playedOneshots :
                \/ id = "oneshot_finale"
                \/ /\ "oneshot_finale" \notin playedOneshots
                   /\ RegisteredBefore(id, "oneshot_finale") ]_vars

\* the finale has fired on a sample that is also in the range of
\* oneshot_1, registered after it, and oneshot_1 has not fired
C3_Witness ==
    /\ "oneshot_finale" \in playedOneshots
    /\ "oneshot_1" \notin playedOneshots
    /\ \E zone \in OneshotZones :
          /\ zone.id = "oneshot_1"
          /\ \E finale \in OneshotZones :
                finale.id = "oneshot_finale" /\ InRange(finale) \subseteq InRange(zone)

\* reset() empties playedOneshots, startedParts and activeOneshots, marks
\* every layer not playing and keeps every buffer
ResetClears ==
    LET r == reset(St)
    IN /\ r.playedOneshots = {}
       /\ r.startedParts = {}
       /\ r.activeOneshots = {}
       /\ \A layerId \in DOMAIN audioLayers :
             /\ ~r.audioLayers[layerId].isPlaying
             /\ r.audioLayers[layerId].buffer = audioLayers[layerId].buffer

\* C4, as amended: reset() empties playedOneshots, startedParts and
\* activeOneshots, marks every layer not playing and keeps every buffer;
\* after it a zone that had fired fires again on the next sample in its
\* range, unless it is the finale and oneshot_9 has not fired again, or it
\* is another zone and the finale has fired again first.
C4_ResetRearms ==
    /\ ResetClears
    /\ isInitialized =>
         \A zone \in OneshotZones : \A position \in InRange(zone) :
            zone.id \in prevPlayed \ playedOneshots =>
               LET played == updateLocationAudio(St, position).playedOneshots
               IN \/ zone.id \in played
                  \/ zone.id = "oneshot_finale" /\ "oneshot_9" \notin playedOneshots
                  \/ zone.id # "oneshot_finale" /\ "oneshot_finale" \in played

\* the finale fired, reset() was called, and the finale has fired again
C4_Witness ==
    /\ "oneshot_finale" \in prevPlayed
    /\ "oneshot_finale" \in playedOneshots

\* C4, as stated: after reset() every zone that had fired fires again on
\* the next sample in its range
C4_AsStated ==
    /\ ResetClears
    /\ isInitialized =>
         \A zone \in OneshotZones : \A position \in InRange(zone) :
            zone.id \in prevPlayed \ playedOneshots =>
               zone.id \in updateLocationAudio(St, position).playedOneshots

----------------------------------------------------------------------------
(* Parts                                                                   *)

\* the layers of the part of layerId
Members(layerId) == SeqToSet(partToLayers[layerToPart[layerId]])

\* the source of layerId was created by startPart
StartedByPart(layerId) ==
    /\ audioLayers[layerId].isPlaying
    /\ audioLayers[layerId].source \in DOMAIN nodes
    /\ nodes[audioLayers[layerId].source].by = "startPart"

\* C5: a layer of a part only gets a running source from startPart,
\* together with the other members.  In every reachable state, if a layer
\* of a part is playing then its part is in startedParts and every member
\* of the part is playing on the source startPart gave it.
C5_PartsStartTogether ==
    \A layerId \in DOMAIN layerToPart :
        audioLayers[layerId].isPlaying
          => /\ layerToPart[layerId] \in startedParts
             /\ \A member \in Members(layerId) : StartedByPart(member)

\* layerId has a running source
HasRunningSource(layerId) ==
    /\ audioLayers[layerId].isPlaying
    /\ audioLayers[layerId].source \in DOMAIN nodes
    /\ nodes[audioLayers[layerId].source].running

\* C6: a part, once started, stays started.  In every state reached
\* without reset(), every member layer of every part in startedParts still
\* has a running source.
C6_StartedStaysPlaying ==
    \A partId \in startedParts :
        \A layerId \in SeqToSet(partToLayers[partId]) : HasRunningSource(layerId)

\* every member layer of partId is registered and has its buffer
AllLoaded(partId) ==
    \A layerId \in SeqToSet(partToLayers[partId]) :
        layerId \in DOMAIN audioLayers /\ audioLayers[layerId].buffer

\* the sources startPart created for layerId
PartHandles(layerId) ==
    { h \in DOMAIN nodes : nodes[h].layer = layerId /\ nodes[h].by = "startPart" }

\* C7: startPart is idempotent.  In every reachable state, startPart on a
\* part that is in startedParts changes nothing, and no member layer has
\* more than one source created by startPart.
C7_StartPartIdempotent ==
    \A partId \in startedParts :
        /\ startPart(St, partId) = St
        /\ \A layerId \in SeqToSet(partToLayers[partId]) :
              Cardinality(PartHandles(layerId)) <= 1

\* two overlapping invocations have each called startPart("audio1"): both
\* wait for their 50 ms timer and each member has its one source
C7_Witness ==
    /\ "audio1" \in startedParts
    /\ Len(settleQ) = 2
    /\ \A layerId \in SeqToSet(partToLayers["audio1"]) :
          Cardinality(PartHandles(layerId)) = 1

\* C8: startPart is all-or-nothing.  In every reachable state, startPart on
\* a part with a member that is unregistered or has no buffer changes
\* nothing; on a part not yet started whose members all have their buffer
\* it adds the part to startedParts and leaves every member playing on a
\* running source.
C8_AllOrNothing ==
    \A partId \in DOMAIN partToLayers :
        LET r == startPart(St, partId)
        IN /\ ~AllLoaded(partId) => r = St
           /\ (AllLoaded(partId) /\ partId \notin startedParts)
                => /\ partId \in r.startedParts
                   /\ \A layerId \in SeqToSet(partToLayers[partId]) :
                         /\ r.audioLayers[layerId].isPlaying
                         /\ r.nodes[r.audioLayers[layerId].source].running

\* one member of "audio1" has its buffer, the other has not, and the part
\* has not started
C8_Witness ==
    /\ audioLayers["audio1_a"].buffer
    /\ ~audioLayers["audio1_b"].buffer
    /\ "audio1" \notin startedParts
    /\ isInitialized

----------------------------------------------------------------------------
(* Ordering of commands                                                    *)

\* the gain last commanded on each music layer that has a gain node
MusicGains ==
    [ layerId \in { l \in DOMAIN audioLayers :
                      /\ ~startsWithOneshot(l)
                      /\ \/ audioLayers[l].gainNode # NoHandle
                         \/ l \in DOMAIN layerGains } |->
        nodes[IF audioLayers[layerId].gainNode # NoHandle
              THEN audioLayers[layerId].gainNode
              ELSE layerGains[layerId]].gain ]

\* the zones that fire in a step
Firing == { zone \in OneshotZones : zone.id \in playedOneshots' \ playedOneshots }

C10_InOrder ==
    [][ (settleQ # << >> /\ settleQ' = Tail(settleQ))
          => ~calls[Head(settleQ)].overtaken ]_vars

----------------------------------------------------------------------------
(* Loading                                                                 *)

\* the gain a fade or play command to `volume` puts on a layer
CommandedGain(volume) == (volume * masterVolume) \div 100

\* the music layers that are playing and belong to none of `parts`
PlayingOutside(parts) ==
    { layerId \in DOMAIN audioLayers :
        /\ ~startsWithOneshot(layerId)
        /\ audioLayers[layerId].isPlaying
        /\ Get(layerToPart, layerId, "") \notin SeqToSet(parts) }

\* C11: a pending load suspends only the operation that awaits it.  In
\* every step in which an invocation of updateLocationAudio suspends on the
\* loads of the parts it has to start, every playing music layer outside
\* those parts has been given the gain computed from the sample.
C11_OthersNotSuspended ==
    [][ \A c \in DOMAIN calls' \ DOMAIN calls :
           \A layerId \in PlayingOutside(calls'[c].parts) :
              /\ layerId \in DOMAIN MusicGains'
              /\ MusicGains'[layerId]
                   = CommandedGain(Get(calls'[c].targets.vol, layerId, 0)) ]_vars

\* C12: at most one load is in flight per layer: whatever the interleaving
\* of progressivePreload, oneshot triggers and part starts, no layer has two
\* unsettled calls of loadAudio, a layer has an unsettled fetch exactly while
\* its load promise is stored, and every caller of ensureLayerLoaded that
\* is still awaiting is attached to that one promise, so that it completes
\* with the outcome of the load in flight.
C12_OneLoadPerLayer ==
    /\ DOMAIN fetches = loadingPromises
    /\ \A layerId \in DOMAIN fetches : fetches[layerId] = 1
    /\ DOMAIN loadWaiters \subseteq loadingPromises
    /\ \A c \in DOMAIN calls : calls[c].waiting \subseteq loadingPromises

\* a load in flight that two later calls of ensureLayerLoaded have joined
C12_Witness ==
    \E layerId \in loadingPromises :
        /\ fetches[layerId] = 1
        /\ Len(Get(loadWaiters, layerId, << >>)) = 2

\* the loads that fail in a step
FailedLoads ==
    { layerId \in loadingPromises \ loadingPromises' :
        ~audioLayers'[layerId].buffer }

\* C13: a load failure of one layer does not block other layers.  On a
\* step in which a load awaited by the invocation of updateLocationAudio
\* of the latest sample fails, every playing music layer that is in none of
\* the parts the invocation was starting has received the command of that
\* sample: its gain is the target volume of the sample times the master
\* volume.
C13_FailureDoesNotBlock ==
    [][ \A c \in DOMAIN calls :
          (~calls[c].overtaken /\ calls[c].waiting \cap FailedLoads # {}) =>
             \A layerId \in PlayingOutside(calls[c].parts) :
                /\ layerId \in DOMAIN MusicGains'
                /\ MusicGains'[layerId]
                     = CommandedGain(Get(calls[c].targets.vol, layerId, 0)) ]_vars

\* C14: a part with a member whose buffer is not loaded is not in
\* startedParts, in every reachable state and after every step: whatever
\* the position samples and the calls of startPart, a part is added to
\* startedParts only in a state where every member has its buffer, so a
\* part with a member that never loads is never added.
C14_UnloadedNeverStarts ==
    \A partId \in DOMAIN partToLayers :
        ~AllLoaded(partId) => partId \notin startedParts

\* the sample at the centre of the zones has been handled, the load of one
\* member of "audio1" has failed and the part has not started
C14_Witness ==
    /\ isInitialized
    /\ "oneshot_1" \in playedOneshots
    /\ audioLayers["audio1_a"].buffer
    /\ ~audioLayers["audio1_b"].buffer
    /\ "audio1_b" \notin loadingPromises
    /\ calls = << >>
    /\ "audio1" \notin startedParts

\* the layers of the oneshot zones
OneshotLayers ==
    UNION { SeqToSet(zone.audioLayers) : zone \in OneshotZones }

\* C15: after reset() the completion of a load that was in flight has no
\* audible effect.  A oneshot is played only for a zone that fired, and
\* reset() clears playedOneshots and activeOneshots: in a state where no
\* zone has fired since the last reset, no oneshot is active and no oneshot
\* layer is marked playing.
C15_NoEffectAfterReset ==
    playedOneshots = {} =>
        /\ activeOneshots = {}
        /\ \A layerId \in OneshotLayers : ~audioLayers[layerId].isPlaying

\* the running sources that play the buffer of layerId
RunningSources(layerId) ==
    { h \in DOMAIN nodes : nodes[h].layer = layerId /\ nodes[h].running }

\* C16: every layer owns at most one running sound source at any time,
\* across position samples, oneshot firings and completions, stopAll() and
\* reset().
C16_OneSourcePerLayer ==
    \A layerId \in DOMAIN audioLayers :
        Cardinality(RunningSources(layerId)) <= 1

\* C17: when the last active oneshot has finished, the music bus is back
\* at 100%.  After any sequence of oneshot firings and completions, in a
\* state where no oneshot is active and no recovery timer of a special cue
\* is pending, the gain target of the music bus is 100%.
C17_BusRestored ==
    (activeOneshots = {} /\ DOMAIN duckTimers = {}) => musicBus = 100

----------------------------------------------------------------------------
(* Target volumes                                                          *)

\* the registered zones that are not oneshot zones
MusicZones == { zone \in Range(audioZones) : ~zone.isOneshot }

\* the zones of MusicZones that reference layerId
ZonesOf(layerId) ==
    { zone \in MusicZones : layerId \in SeqToSet(zone.audioLayers) }

\* the contributions of the zones of layerId at position
Contributions(layerId, position) ==
    { ZoneVolume(zone, calculateDistance(position, zone.center)) :
        zone \in ZonesOf(layerId) }

\* C18: for every layer and every position sample, the target volume that
\* updateLocationAudio computes is the maximum, never the sum, of the
\* contributions of the non-oneshot zones that reference the layer: it is
\* one of the contributions and no contribution is greater.
C18_TargetIsMaximum ==
    \A position \in Positions :
        LET vol == layerTargetVolumes(St, position).vol
        IN /\ DOMAIN vol = { layerId \in DOMAIN audioLayers :
                                ZonesOf(layerId) # {} }
           /\ \A layerId \in DOMAIN vol :
                 /\ vol[layerId] \in Contributions(layerId, position)
                 /\ \A c \in Contributions(layerId, position) :
                       c <= vol[layerId]

\* zones with maxVolume 50% and 80% share a layer and have the same centre,
\* radius and fade ring, and the layer plays at 80% of the master volume:
\* the sample was in the core of both
C18_Witness ==
    /\ \E a, b \in ZonesOf("shared") :
          /\ a.maxVolume = 50 /\ b.maxVolume = 80
          /\ a.center = b.center
          /\ a.radius = b.radius
          /\ a.fadeDistance = b.fadeDistance
    /\ audioLayers["shared"].isPlaying
    /\ "shared" \in DOMAIN MusicGains
    /\ MusicGains["shared"] = CommandedGain(80)

\* the layers that exactly one non-oneshot zone references
SingleZoneLayers ==
    { layerId \in DOMAIN audioLayers : Cardinality(ZonesOf(layerId)) = 1 }

\* the zone of a layer of SingleZoneLayers
ZoneOf(layerId) == CHOOSE zone \in ZonesOf(layerId) : TRUE

\* the position samples at `distance` from the centre of zone
At(zone, distance) == { zone.center + distance, zone.center - distance }

\* C19: for a layer referenced by a single non-oneshot zone, the target
\* volume of a sample at distance d from the centre of the zone is 0 if
\* d > radius, maxVolume if d <= max(0, radius - fadeDistance), and
\* maxVolume * (radius - d) / fadeDistance otherwise.  For radius 100 m,
\* fadeDistance 20 m and maxVolume 100% it is 100% at d = 0, 50% at
\* d = 90 m and 0 at d = 150 m.
C19_SingleZoneTarget ==
    \A layerId \in SingleZoneLayers :
        LET zone == ZoneOf(layerId)
            Target(d) == { layerTargetVolumes(St, position).vol[layerId] :
                             position \in At(zone, d) }
        IN /\ \A d \in Distances :
                Target(d) =
                  { IF d > zone.radius THEN 0
                    ELSE IF d <= Max(0, zone.radius - zone.fadeDistance)
                         THEN zone.maxVolume
                    ELSE (zone.maxVolume * (zone.radius - d))
                            \div zone.fadeDistance }
           /\ ( zone.radius = 10000 /\ zone.fadeDistance = 2000
                 /\ zone.maxVolume = 100 )
                => /\ Target(0) = {100}
                   /\ Target(9000) = {50}
                   /\ Target(15000) = {0}

\* the zone of the example, and its layer commanded 50% of the master
\* volume: the sample was 90 m from the centre
C19_Witness ==
    /\ "solo" \in SingleZoneLayers
    /\ ZoneOf("solo").radius = 10000
    /\ ZoneOf("solo").fadeDistance = 2000
    /\ ZoneOf("solo").maxVolume = 100
    /\ audioLayers["solo"].isPlaying
    /\ "solo" \in DOMAIN MusicGains
    /\ MusicGains["solo"] = CommandedGain(50)

\* C20: for every registered non-oneshot zone and every distance d, the
\* contribution of the zone is at least 0 and at most maxVolume, does not
\* increase as d grows from 0 to radius, and is exactly 0 for d > radius.
C20_ContributionBounded ==
    \A zone \in MusicZones :
        /\ \A d \in Distances :
              /\ 0 <= ZoneVolume(zone, d)
              /\ ZoneVolume(zone, d) <= zone.maxVolume
              /\ d > zone.radius => ZoneVolume(zone, d) = 0
        /\ \A d, e \in Distances :
              (d <= e /\ e <= zone.radius)
                 => ZoneVolume(zone, d) >= ZoneVolume(zone, e)

\* a zone whose fade ring is wider than the zone, and its layer commanded
\* the volume of the ramp 90 m from the centre
C20_Witness ==
    \E zone \in ZonesOf("solo") :
        /\ zone.fadeDistance > zone.radius
        /\ zone.radius = 10000
        /\ ZoneVolume(zone, 9000) > 0
        /\ ZoneVolume(zone, 9000) < zone.maxVolume
        /\ audioLayers["solo"].isPlaying
        /\ "solo" \in DOMAIN MusicGains
        /\ MusicGains["solo"] = CommandedGain(ZoneVolume(zone, 9000))

\* line 695: the inner edge of the fade ring of zone
FadeStart(zone) == Max(0, zone.radius - zone.fadeDistance)

\* lines 698-699: the ramp formula of zone at distance
Ramp(zone, distance) ==
    (zone.maxVolume * (zone.radius - distance)) \div zone.fadeDistance

\* C21: the contribution of a zone has no jump at the inner edge of the
\* fade ring nor at d = radius.  For every registered non-oneshot zone,
\* including a zone whose fadeDistance exceeds its radius, the value in the
\* core and the ramp formula agree at d = max(0, radius - fadeDistance),
\* and the ramp is 0 at d = radius.
C21_NoJump ==
    \A zone \in MusicZones :
        /\ ZoneVolume(zone, FadeStart(zone)) = Ramp(zone, FadeStart(zone))
        /\ ZoneVolume(zone, zone.radius) = 0
        /\ Ramp(zone, zone.radius) = 0

----------------------------------------------------------------------------
(* Trigger radius                                                          *)

\* the gates of lines 645-661 do not hold zone back
Ungated(zone) ==
    /\ ~("oneshot_finale" \in playedOneshots /\ zone.id # "oneshot_finale")
    /\ ~(zone.id = "oneshot_finale" /\ "oneshot_9" \notin playedOneshots)

\* C22: a oneshot zone that has not fired yet (and that no gate holds
\* back) fires on a sample exactly when the distance of the sample to its
\* centre is at most max(1 m, zone.radius), the boundary included, whatever
\* its fadeDistance and maxVolume.
C22_FiresWithinRadius ==
    \A zone \in OneshotZones : \A position \in Positions :
        (zone.id \notin playedOneshots /\ Ungated(zone)) =>
            ( ZoneFires(St, zone, position)
                <=> calculateDistance(position, zone.center)
                      <= Max(100, zone.radius) )

----------------------------------------------------------------------------
(* Loading on demand                                                       *)

\* the registered music layers with a URL that are not playing and that a
\* sample at position gives a target volume above 0
ToBegin(position) ==
    LET vol == layerTargetVolumes(St, position).vol
    IN { layerId \in DOMAIN vol :
           /\ vol[layerId] > 0
           /\ layerId \in DOMAIN audioLayers
           /\ ~startsWithOneshot(layerId)
           /\ audioLayers[layerId].url
           /\ ~audioLayers[layerId].isPlaying }

\* C23: when a sample gives a registered music layer that is not playing a
\* target volume above 0, updateLocationAudio itself makes sure that the
\* buffer of the layer is loaded: when the invocation returns or suspends,
\* the layer has its buffer or its load is in flight, for a layer of no
\* part as well as for a member of a part.
C23_EnsuresLoaded ==
    isInitialized =>
        \A position \in Positions :
            LET r == updateLocationAudio(St, position)
            IN \A layerId \in ToBegin(position) :
                  \/ r.audioLayers[layerId].buffer
                  \/ layerId \in r.loadingPromises

----------------------------------------------------------------------------
(* Registration                                                            *)

\* C24: registering a zone with radius <= 0 is rejected: it is not
\* appended, so the zone registry never holds a zone whose radius is not
\* positive.
C24_RadiusValidated ==
    \A i \in 1..Len(audioZones) : audioZones[i].radius > 0

\* the zone addAudioZone would append for config
Registered(config) ==
    LET r == addAudioZone(St, config)
    IN r.audioZones[Len(r.audioZones)]

\* C25: registration applies the defaults of fadeDistance and maxVolume
\* only when the field is absent: a supplied value, 0 included, is stored
\* unchanged, and a zone registered with fadeDistance 0 is a hard disc,
\* with contribution maxVolume up to its radius and 0 outside.
C25_SuppliedValuesKept ==
    \A radius \in RegRadii, fadeDistance \in RegFades, maxVolume \in RegVolumes :
        LET zone == Registered(ZoneConfig(radius, fadeDistance, maxVolume))
        IN /\ zone.fadeDistance = fadeDistance
           /\ zone.maxVolume = maxVolume
           /\ fadeDistance = 0 =>
                 \A d \in Distances :
                    ZoneVolume(zone, d)
                      = IF d <= zone.radius THEN zone.maxVolume ELSE 0

\* C27: each layer has at most one owning part and the two part maps are
\* inverse to each other: after any sequence of registerLayerPart calls a
\* layer is in partToLayers[p] if and only if layerToPart[layer] = p.
C27_PartMapsInverse ==
    /\ \A partId \in DOMAIN partToLayers :
          \A layerId \in SeqToSet(partToLayers[partId]) :
             Get(layerToPart, layerId, "") = partId
    /\ \A layerId \in DOMAIN layerToPart :
          /\ layerToPart[layerId] \in DOMAIN partToLayers
          /\ layerId \in SeqToSet(partToLayers[layerToPart[layerId]])

----------------------------------------------------------------------------
(* Stored handles                                                          *)

\* C26: stopping the source of a layer removes every stored reference to
\* its handles in the same step.  A layer that is not playing has no source
\* and no gain node in its record and no gain node in layerGains, so that
\* a later fade cannot act on the handle of a stopped source.
C26_NoStaleHandle ==
    \A layerId \in DOMAIN audioLayers :
        ~audioLayers[layerId].isPlaying =>
            /\ audioLayers[layerId].source = NoHandle
            /\ audioLayers[layerId].gainNode = NoHandle
            /\ layerId \notin DOMAIN layerGains

----------------------------------------------------------------------------
(* Master volume                                                           *)

\* the gain node fadeLayer acts on for layerId, lines 588-589
GainNodeOf(layerId) ==
    IF audioLayers[layerId].gainNode # NoHandle
    THEN audioLayers[layerId].gainNode
    ELSE Get(layerGains, layerId, NoHandle)

\* C28: the master volume is applied once, on the master gain: the gain
\* target that playLayer and fadeLayer set on a music layer is the target
\* volume they are called with and does not depend on the master volume.
C28_MasterAppliedOnce ==
    isInitialized =>
        \A layerId \in DOMAIN audioLayers : \A volume \in {50, 100} :
            /\ audioLayers[layerId].buffer =>
                  LET r == playLayer(St, layerId, volume, TRUE)
                  IN r.nodes[r.audioLayers[layerId].gainNode].gain = volume
            /\ GainNodeOf(layerId) # NoHandle =>
                  fadeLayer(St, layerId, volume).nodes[GainNodeOf(layerId)].gain
                     = volume

----------------------------------------------------------------------------
(* The finale, once unlocked                                               *)

\* the finale zone
FinaleZones == { zone \in OneshotZones : zone.id = "oneshot_finale" }

\* the prerequisite of the finale has fired and the finale has not
FinaleUnlocked ==
    /\ isInitialized
    /\ "oneshot_9" \in playedOneshots
    /\ "oneshot_finale" \notin playedOneshots

\* C29: when the prerequisite oneshot has fired and the finale has not,
\* every sample within the trigger radius of the finale zone fires the
\* finale, whether or not the same position was rejected before.
C29_UnlockedFinaleFires ==
    FinaleUnlocked =>
        \A zone \in FinaleZones : \A position \in InRange(zone) :
            "oneshot_finale" \in updateLocationAudio(St, position).playedOneshots

\* the finale is unlocked and a sample position is in its range
C29_Witness ==
    /\ FinaleUnlocked
    /\ \E zone \in FinaleZones : \E position \in InRange(zone) :
          "oneshot_finale" \in updateLocationAudio(St, position).playedOneshots

----------------------------------------------------------------------------
(* Playing a oneshot                                                       *)

\* the running sources playOneShot started for layerId
OneshotSources(layerId) ==
    { h \in RunningSources(layerId) : nodes[h].by = "playOneShot" }

\* C30: when a oneshot zone fires, each of its layers whose load succeeds
\* is started exactly once for that firing, non-looping and on the oneshot
\* bus, and never before its buffer is loaded.  In every step: a zone that
\* fires spawns one callback for each of its layers; a layer that becomes
\* active had its buffer before the step, uses up one callback and has one
\* more running source, none of which loops or feeds another bus than the
\* oneshot bus; and a callback ends only by starting the layer or with the
\* failure of the load it awaits.
C30_PlayedOncePerFiring ==
    [][ \A zone \in OneshotZones : \A layerId \in SeqToSet(zone.audioLayers) :
          /\ zone.id \in playedOneshots' \ playedOneshots
                => Triggers(layerId)' = Triggers(layerId) + 1
          /\ layerId \in activeOneshots' \ activeOneshots
                => /\ audioLayers[layerId].buffer
                   /\ Triggers(layerId)' = Triggers(layerId) - 1
                   /\ Cardinality(OneshotSources(layerId)')
                        = Cardinality(OneshotSources(layerId)) + 1
                   /\ \A h \in OneshotSources(layerId)' :
                         ~nodes'[h].loop /\ nodes'[h].bus = "oneshot"
          /\ Triggers(layerId)' < Triggers(layerId)
                => \/ layerId \in activeOneshots' \ activeOneshots
                   \/ layerId \in FailedLoads ]_vars

----------------------------------------------------------------------------
(* Step 4 and the oneshot layers                                           *)

\* the layers step 4 must leave alone: those of the oneshot zones, those
\* named as oneshots, and those sounding as oneshots
Protected ==
    UNION { SeqToSet(zone.audioLayers) : zone \in OneshotZones }
      \cup { layerId \in DOMAIN audioLayers : startsWithOneshot(layerId) }
      \cup activeOneshots

\* the target maps step 4 can run with in this state: the one of a sample
\* taken now, and those of the invocations waiting for their 50 ms timer
Step4Targets ==
    { layerTargetVolumes(St, position) : position \in Positions }
      \cup { calls[c].targets : c \in DOMAIN calls }

----------------------------------------------------------------------------
(* Step 4: ramp to silence, and stop                                       *)

\* C32: updateLocationAudio never stops the source of a layer that belongs
\* to a part: whatever target map step 4 runs with, every running source of
\* such a layer keeps running and no stop is scheduled for it, and when the
\* layer is playing with target 0 it is ramped to gain 0 and stays playing;
\* a playing layer of no part with target 0 is ramped to gain 0 and a stop
\* is scheduled, which stops its source when the timer fires.
C32_PartLayersNeverStopped ==
    isInitialized =>
      \A targets \in Step4Targets :
        LET r == ApplyFades(St, targets)
        IN \A layerId \in DOMAIN audioLayers \ Protected :
             LET silenced == audioLayers[layerId].isPlaying
                               /\ Get(targets.vol, layerId, 0) = 0
                 gainNode == GainNodeOf(layerId)
             IN IF layerId \in DOMAIN layerToPart
                THEN /\ \A h \in RunningSources(layerId) :
                          h \in DOMAIN r.nodes /\ r.nodes[h].running
                     /\ Get(r.stopTimers, layerId, 0) = Get(stopTimers, layerId, 0)
                     /\ silenced =>
                          /\ r.audioLayers[layerId].isPlaying
                          /\ r.audioLayers[layerId].source = audioLayers[layerId].source
                          /\ gainNode # NoHandle => r.nodes[gainNode].gain = 0
                ELSE silenced =>
                       /\ gainNode # NoHandle => r.nodes[gainNode].gain = 0
                       /\ Get(r.stopTimers, layerId, 0)
                            = Get(stopTimers, layerId, 0) + 1
                       /\ LET u == stopLayer(r, layerId)
                          IN /\ ~u.audioLayers[layerId].isPlaying
                             /\ \A h \in RunningSources(layerId) :
                                   ~u.nodes[h].running

\* a member of a part and a layer of no part are both playing, and each has
\* the target 0 in some target map step 4 can run with
C32_Witness ==
    /\ isInitialized
    /\ \E a \in DOMAIN layerToPart, b \in DOMAIN audioLayers \ DOMAIN layerToPart :
         /\ audioLayers[a].isPlaying /\ RunningSources(a) # {}
         /\ audioLayers[b].isPlaying /\ RunningSources(b) # {}
         /\ \E targets \in Step4Targets : Get(targets.vol, a, 0) = 0
         /\ \E targets \in Step4Targets : Get(targets.vol, b, 0) = 0

\* C33: a playing layer of no part that the latest step 4 ramped to a
\* positive gain keeps playing until a sample gives it the target 0: no step
\* (in particular no stop timer left over from an earlier sample) takes a
\* layer that is playing at a positive commanded gain out of play.
C33_RampedUpKeepsPlaying ==
    [][ \A layerId \in DOMAIN audioLayers \ (DOMAIN layerToPart \cup Protected) :
          ( /\ audioLayers[layerId].isPlaying
            /\ audioLayers[layerId].gainNode # NoHandle
            /\ nodes[audioLayers[layerId].gainNode].gain > 0 )
            => audioLayers'[layerId].isPlaying ]_vars

----------------------------------------------------------------------------
(* The ducking window of the special cues                                  *)

\* C34: from the start of a special cue until its scheduled recovery begins
\* the target of the music bus stays at 0: while the source of oneshot5 or
\* oneshot8 is running and the recovery timer it set is still pending, the
\* music bus is at 0%.
C34_SpecialCueKeepsSilence ==
    \A layerId \in SpecialCues \cap DOMAIN duckTimers :
        OneshotSources(layerId) # {} => musicBus = 0

----------------------------------------------------------------------------
(* The guard of updateLocationAudio                                        *)

\* C37: updateLocationAudio called with no position, or before initialize()
\* has completed, is a no-op: it fires no oneshot, starts no part and no
\* load, and leaves playedOneshots, startedParts, activeOneshots and every
\* layer (the whole mixer) unchanged.
C37_GuardedNoOp ==
    \A position \in Samples :
        (position = NoPosition \/ ~isInitialized)
            => updateLocationAudio(St, position) = St

\* the mixer is initialized and a zone is in range and has not fired: the
\* call with a position changes the mixer, the call without one does not
C37_Witness ==
    /\ isInitialized
    /\ \E zone \in OneshotZones : \E position \in InRange(zone) :
          /\ ZoneFires(St, zone, position)
          /\ updateLocationAudio(St, position) # St
    /\ updateLocationAudio(St, NoPosition) = St

----------------------------------------------------------------------------
(* The application and its position source                                 *)

\* C35: pausing preserves the oneshot history: from pauseWalk until
\* resumeWalk playedOneshots does not change (no position sample reaches
\* updateLocationAudio and fires a oneshot while the walk is paused).
C35_PauseKeepsHistory ==
    [][ (isPaused /\ isPaused') => playedOneshots' = playedOneshots ]_vars

\* C36: startWalk prevents a double start: at most one call of startWalk at
\* a time is past the guard of line 1393, on its way to starting the
\* tracking and setting isWalking.
C36_NoDoubleStart ==
    Cardinality(DOMAIN app.starts) <= 1

\* C38: whenever isTracking is false, no position watch, no poll timer and
\* no restart timer is active.
C38_StoppedMeansQuiet ==
    ~locationService.isTracking =>
        /\ ~locationService.watchId
        /\ ~locationService.pollTimer
        /\ ~locationService.restartTimer

\* C39: waitForFix settles exactly once: resolve or reject is called at most
\* once for each promise; a promise is unsettled only while no position is
\* known, its timer is pending, its listener is in the callback list and
\* startWalk awaits it (so it was resolved at once if a position existed,
\* and is resolved by the first position update); and once it has settled
\* its listener is not in the callback list and startWalk has gone on.
C39_SettlesOnce ==
    \A id \in DOMAIN locationService.fixes :
        LET fix == locationService.fixes[id]
        IN /\ fix.settled <= 1
           /\ fix.settled = 0 =>
                 /\ locationService.currentPosition = NoPosition
                 /\ fix.timer
                 /\ id \in SeqToSet(locationService.callbacks)
                 /\ id \in DOMAIN app.starts /\ app.starts[id] = "fix"
           /\ fix.settled = 1 =>
                 /\ id \notin SeqToSet(locationService.callbacks)
                 /\ id \in DOMAIN app.starts => app.starts[id] = "wakeLock"

\* a promise of waitForFix was resolved by a position update and its timer
\* is still pending, while another call of startWalk awaits its first fix
\* no longer: it found the position and was resolved at once
C39_Witness ==
    \E a, b \in DOMAIN locationService.fixes :
        /\ locationService.fixes[a].done
        /\ locationService.fixes[a].timer
        /\ locationService.fixes[a].settled = 1
        /\ ~locationService.fixes[b].done
        /\ ~locationService.fixes[b].timer
        /\ locationService.fixes[b].settled = 1

====
